---- MODULE Spec2Model ----
(***************************************************************************)
(* A model of Ravello TestMill (lib/testmill): the VM state combination,   *)
(* the application re-use / creation logic, local UID regeneration, the    *)
(* state polling loop, the ssh reachability probe and the task pipeline of *)
(* the "run" command, the API client with its retries, the check of the    *)
(* manifest, the caches of full objects, the choice of unused names, the   *)
(* VM definition made from a cached image and the deferred shutdown that   *)
(* the run schedules on each host.                                         *)
(*                                                                         *)
(* The program is modelled as a family of state machines, one per          *)
(* component, that share one initial state.  Every component has its own   *)
(* specification (SpecCombine, SpecLuid, ...) that steps only that         *)
(* component's variables and leaves the others alone.                      *)
(***************************************************************************)
EXTENDS Integers, Sequences, FiniteSets, TLC

VARIABLES
    cs_fn,        \* combine: the function last called ("none" before a call)
    cs_args,      \* combine: the arguments of the last call, a sequence of labels
    cs_result,    \* combine: what the last call returned
    cs_prev,      \* combine: <<args, result>> of the combine_states call before it
    lu_src,       \* luids: the tree update_luids was called on ("none" before a call)
    lu_draws,     \* luids: the values random_luid() returned during the call, in call order
    lu_out,       \* luids: the tree after the call
    be_apps,      \* backend: the applications of the project, in listing order
    rs_pc,        \* resolver: where the "run" command is
    rs_run,       \* resolver: the number of invocations of the command so far
    rs_new,       \* resolver: args.new (--new)
    rs_manifest,  \* resolver: manifest['environments'], expanded to their definitions
    rs_env_i,     \* resolver: the environment start_applications() handles next
    rs_applications,  \* resolver: self.applications, the listing load_cache() got
    rs_full,      \* resolver: self.full_applications, id -> full application
    rs_appmap,    \* resolver: appmap of start_applications(), appid -> environment
    rs_calls,     \* resolver: the API calls of this invocation, in order
    rs_last,      \* resolver: what the last environment resolved to
    pr_pc,        \* probe: where wait_until_vms_accept_ssh() is
    pr_behaviour, \* probe: address -> what a connect() to its port 22 does
    pr_addrs,     \* probe: addrs, the addresses not confirmed yet
    pr_alive,     \* probe: alive, the confirmed addresses in order of confirmation
    pr_waitfds,   \* probe: waitfds of the round, the addresses whose socket is waited for
    pr_open,      \* probe: the addresses whose socket of this round is not closed
    pr_clock,     \* probe: the rounds that have used up their poll_timeout
    pr_signals,   \* probe: the signals that interrupted select() so far
    pr_progress,  \* probe: the codes handed to progress()
    pr_log,       \* probe: the messages handed to error()
    si_n,         \* sysinit: the invocations of the stage on the host so far
    si_files,     \* sysinit: the marker files in the remote home directory
    si_prev,      \* sysinit: the invocation before the last one
    si_last,      \* sysinit: the last invocation
    po_pc,        \* polling: where wait_until_applications_are_up() is
    po_impl,      \* polling: "run" for RunCommand's loop, "main" for SubCommand's
    po_appmap,    \* polling: the applications waited for (application ids)
    po_vms,       \* polling: application -> the number of its VMs
    po_waitapps,  \* polling: waitapps, the applications still pending
    po_alive,     \* polling: the applications found up, in the order they were found
    po_round,     \* polling: the rounds that ended with the sleep of poll_timeout
    po_todo,      \* polling: what is left of list(waitapps) in this round
    po_min_state, \* polling: min_state of the round
    po_progress,  \* polling: the codes handed to progress() / show_progress()
    po_trace,     \* polling: per application, the aggregate state seen in each round
    po_log,       \* polling: the messages handed to error()
    pl_pc,        \* pipeline: where RunCommand.run() is after the waiting
    pl_addrmap,   \* pipeline: the addresses of the VMs that were waited for
    pl_alive,     \* pipeline: the addresses the probe returned, in its order
    pl_hosts,     \* pipeline: fab.env.hosts, the addresses that are alive
    pl_continue,  \* pipeline: args.continue_, which becomes fab.env.warn_only
    pl_marker,    \* pipeline: host -> the sysinit marker of its commands exists
    pl_pos,       \* pipeline: host -> the init action run_tasks() runs next on it
    pl_dead,      \* pipeline: host -> the process running its init actions was aborted
    pl_exec_i,    \* pipeline: the host of fab.env.hosts the execute loop handles next
    pl_ran,       \* pipeline: host -> the stages invoked for it and how they ended
    pl_failures,  \* pipeline: the commands that have failed so far
    gw_client,    \* gateway: the fields of the RavelloClient object
    gw_left,      \* gateway: the network outcomes still to be chosen
    gw_ops,       \* gateway: the API calls made on the client so far
    gw_last,      \* gateway: the last API call, its events and its result
    cf_pc,        \* check: where run() is between load_cache() and the waiting
    cf_manifest,  \* check: the environments of the manifest, expanded
    cf_env_i,     \* check: the environment start_applications() handles next
    cf_calls,     \* check: the API calls made to resolve the environments, in order
    cf_log,       \* check: the messages handed to error()
    fc_cache,     \* cache: full_images, full_applications and full_blueprints: id -> object (0 for no entry)
    fc_fetches,   \* cache: the objects fetched from the API so far; a fetch returns a new object
    fc_calls,     \* cache: the get_full_* calls made so far
    fc_last,      \* cache: the last get_full_* call and what it did
    nm_name,      \* names: the name get_unused_name() was last called with ("none" before a call)
    nm_current,   \* names: the objects it was called with, by their names
    nm_result,    \* names: what it returned
    ct_path,      \* template: the code that builds the VM: "run" or "api"
    ct_image,     \* template: the full image definition as the backend returns it
    ct_full_images,\* template: the cache of full images: the object held for the image id
    ct_vms,       \* template: the VM definitions built so far, in order
    sd_pc,        \* shutdown: where the tasks of the host are: idle, stages, scheduled, done, aborted
    sd_keep,      \* shutdown: the minutes of `keep` of the environment of the host
    sd_continue,  \* shutdown: the --continue flag of the run
    sd_marker,    \* shutdown: the sysinit marker of the host exists
    sd_pos,       \* shutdown: the init action that runs next on the host
    sd_jobs,      \* shutdown: the delays of the jobs pending in the at queue of the host
    sd_log        \* shutdown: what ran on the host, in order

combineVars == <<cs_fn, cs_args, cs_result, cs_prev>>

luidVars == <<lu_src, lu_draws, lu_out>>

resolveVars == <<be_apps, rs_pc, rs_run, rs_new, rs_manifest, rs_env_i,
                 rs_applications, rs_full, rs_appmap, rs_calls, rs_last>>

probeVars == <<pr_pc, pr_behaviour, pr_addrs, pr_alive, pr_waitfds, pr_open,
               pr_clock, pr_signals, pr_progress, pr_log>>

sysinitVars == <<si_n, si_files, si_prev, si_last>>

pollVars == <<po_pc, po_impl, po_appmap, po_vms, po_waitapps, po_alive, po_round,
              po_todo, po_min_state, po_progress, po_trace, po_log>>

pipelineVars == <<pl_pc, pl_addrmap, pl_alive, pl_hosts, pl_continue, pl_marker,
                  pl_pos, pl_dead, pl_exec_i, pl_ran, pl_failures>>

gatewayVars == <<gw_client, gw_left, gw_ops, gw_last>>

checkVars == <<cf_pc, cf_manifest, cf_env_i, cf_calls, cf_log>>

cacheVars == <<fc_cache, fc_fetches, fc_calls, fc_last>>

namesVars == <<nm_name, nm_current, nm_result>>

templateVars == <<ct_path, ct_image, ct_full_images, ct_vms>>

shutdownVars == <<sd_pc, sd_keep, sd_continue, sd_marker, sd_pos, sd_jobs, sd_log>>

vars == <<combineVars, luidVars, resolveVars, probeVars, sysinitVars,
          pollVars, pipelineVars, gatewayVars, checkVars, cacheVars,
          namesVars, templateVars, shutdownVars>>

\* What a step of one component leaves alone: the other components.
othersOfCombine == <<luidVars, resolveVars, probeVars, sysinitVars, pollVars, pipelineVars,
    gatewayVars, checkVars, cacheVars, namesVars, templateVars, shutdownVars>>

othersOfLuid == <<combineVars, resolveVars, probeVars, sysinitVars, pollVars, pipelineVars,
    gatewayVars, checkVars, cacheVars, namesVars, templateVars, shutdownVars>>

othersOfResolve == <<combineVars, luidVars, probeVars, sysinitVars, pollVars, pipelineVars,
    gatewayVars, checkVars, cacheVars, namesVars, templateVars, shutdownVars>>

othersOfProbe == <<combineVars, luidVars, resolveVars, sysinitVars, pollVars, pipelineVars,
    gatewayVars, checkVars, cacheVars, namesVars, templateVars, shutdownVars>>

othersOfSysinit == <<combineVars, luidVars, resolveVars, probeVars, pollVars, pipelineVars,
    gatewayVars, checkVars, cacheVars, namesVars, templateVars, shutdownVars>>

othersOfPoll == <<combineVars, luidVars, resolveVars, probeVars, sysinitVars, pipelineVars,
    gatewayVars, checkVars, cacheVars, namesVars, templateVars, shutdownVars>>

othersOfPipeline == <<combineVars, luidVars, resolveVars, probeVars, sysinitVars, pollVars,
    gatewayVars, checkVars, cacheVars, namesVars, templateVars, shutdownVars>>

othersOfGateway == <<combineVars, luidVars, resolveVars, probeVars, sysinitVars, pollVars,
    pipelineVars, checkVars, cacheVars, namesVars, templateVars,
    shutdownVars>>

othersOfCheck == <<combineVars, luidVars, resolveVars, probeVars, sysinitVars, pollVars,
    pipelineVars, gatewayVars, cacheVars, namesVars, templateVars,
    shutdownVars>>

othersOfCache == <<combineVars, luidVars, resolveVars, probeVars, sysinitVars, pollVars,
    pipelineVars, gatewayVars, checkVars, namesVars, templateVars,
    shutdownVars>>

othersOfNames == <<combineVars, luidVars, resolveVars, probeVars, sysinitVars, pollVars,
    pipelineVars, gatewayVars, checkVars, cacheVars, templateVars,
    shutdownVars>>

othersOfTemplate == <<combineVars, luidVars, resolveVars, probeVars, sysinitVars, pollVars,
    pipelineVars, gatewayVars, checkVars, cacheVars, namesVars, shutdownVars>>

othersOfShutdown == <<combineVars, luidVars, resolveVars, probeVars, sysinitVars, pollVars,
    pipelineVars, gatewayVars, checkVars, cacheVars, namesVars, templateVars>>

(***************************************************************************)
(* Bounds of the model.                                                    *)
(***************************************************************************)
\* The largest number of VMs in an application whose state is reduced.
MaxVms == 2

\* Local UIDs are drawn from 0..MaxLuid (the program draws from 0..2^56-1).
MaxLuid == 2

\* The largest number of applications the backend holds before the command runs.
MaxApps == 3

\* The largest number of invocations of the command in a row.
MaxRuns == 2

\* The largest number of addresses handed to the reachability probe.
MaxAddrs == 2

\* timeout / poll_timeout of the probe: the rounds that fit in its timeout
\* (the command passes 300 and 5).
ProbeBudget == 2

\* The largest number of signals that interrupt the probe's select().
MaxSignals == 1

\* The largest number of applications the polling loop waits for.
MaxPollApps == 1

\* timeout / poll_timeout of the polling loop: the rounds that fit in its
\* timeout (the command passes 900 and 10).
PollBudget == 3

\* The largest number of hosts the pipeline runs on.
MaxHosts == 2

\* The largest number of failing commands in one run of the pipeline.
MaxFailures == 1

\* The largest number of network outcomes chosen for the calls on one client.
MaxOutcomes == 4

\* The largest `retries` argument a client is made with.
MaxRetriesArg == 2

\* The largest number of API calls made on one client.
MaxOps == 2

\* The largest number of commands of a sysinit task.
MaxCommands == 2

\* The largest number of invocations of the sysinit stage on one host.
MaxInvocations == 2

(***************************************************************************)
(* Small helpers.                                                          *)
(***************************************************************************)
Min(a, b) == IF a <= b THEN a ELSE b

\* list.index(x): the 1-based position of the first x in seq, 0 for the
\* ValueError that Python raises when x is not in the list.
IndexOf(seq, x) ==
    IF \E i \in 1..Len(seq) : seq[i] = x
    THEN CHOOSE i \in 1..Len(seq) : seq[i] = x /\ \A j \in 1..(i - 1) : seq[j] # x
    ELSE 0

SeqsUpTo(S, n) == UNION { [1..k -> S] : k \in 1..n }

(***************************************************************************)
(* VM states.  The backend reports a state label per VM; the program       *)
(* knows four of them, every other label is an unknown state.              *)
(***************************************************************************)
KnownStates == {"PUBLISHING", "STOPPED", "STARTING", "STARTED"}

UnknownStates == {"STOPPING", "ERROR"}

StateLabels == KnownStates \cup UnknownStates

(***************************************************************************)
(* combine_states and get_application_state.                               *)
(***************************************************************************)
\* A slip that confuses the combination order with the re-use preference.
vm_ordered_states_reuse_order == <<"STARTED", "STARTING", "STOPPED", "PUBLISHING">>

vm_ordered_states == <<"PUBLISHING", "STOPPED", "STARTING", "STARTED">>

\* A slip that returns state1 from both ValueError handlers.
combine_states_first_only(state1, state2) ==
    LET index1 == IndexOf(vm_ordered_states, state1)
        index2 == IndexOf(vm_ordered_states, state2)
    IN  IF index1 = 0 THEN state1
        ELSE IF index2 = 0 THEN state1
        ELSE vm_ordered_states[Min(index1, index2)]

\* A slip that forgets the minimum and keeps the first argument's state.
combine_states_no_min(state1, state2) ==
    LET index1 == IndexOf(vm_ordered_states, state1)
        index2 == IndexOf(vm_ordered_states, state2)
    IN  IF index1 = 0 THEN state1
        ELSE IF index2 = 0 THEN state2
        ELSE vm_ordered_states[index1]

combine_states(state1, state2) ==
    LET index1 == IndexOf(vm_ordered_states, state1)
        index2 == IndexOf(vm_ordered_states, state2)
    IN  IF index1 = 0 THEN state1
        ELSE IF index2 = 0 THEN state2
        ELSE vm_ordered_states[Min(index1, index2)]

\* functools.reduce(combine_states, states): a left fold from the first VM.
RECURSIVE reduce_states(_)
reduce_states(states) ==
    IF Len(states) = 1 THEN states[1]
    ELSE combine_states(reduce_states(SubSeq(states, 1, Len(states) - 1)),
                        states[Len(states)])

\* A slip that takes the state of the first VM for the state of the application.
get_application_state_first_vm(states) == states[1]

get_application_state(states) == reduce_states(states)

CombineInit ==
    /\ cs_fn = "none"
    /\ cs_args = <<>>
    /\ cs_result = "none"
    /\ cs_prev = <<>>

\* One call combine_states(state1, state2).
CombineStates ==
    \E state1 \in StateLabels, state2 \in StateLabels :
        /\ cs_fn' = "combine_states"
        /\ cs_args' = <<state1, state2>>
        /\ cs_result' = combine_states(state1, state2)
        /\ cs_prev' = IF cs_fn = "combine_states"
                      THEN <<cs_args, cs_result>> ELSE <<>>
        /\ UNCHANGED othersOfCombine

\* One call get_application_state(app) for an application with these VM states.
GetApplicationState ==
    \E states \in SeqsUpTo(StateLabels, MaxVms) :
        /\ cs_fn' = "get_application_state"
        /\ cs_args' = states
        /\ cs_result' = get_application_state(states)
        /\ cs_prev' = <<>>
        /\ UNCHANGED othersOfCombine

NextCombine ==
    \/ CombineStates
    \/ GetApplicationState

(***************************************************************************)
(* Local UIDs: random_luid and update_luids.  A JSON tree is a leaf, a     *)
(* dict (its keys in iteration order, and the value of every key) or a     *)
(* list.                                                                   *)
(***************************************************************************)
Leaf(v) == [kind |-> "leaf", val |-> v]

Dict(keys, items) == [kind |-> "dict", keys |-> keys, items |-> items]

List(elems) == [kind |-> "list", elems |-> elems]

\* random_luid(): 7 random bytes and a zero top byte, read as a little-endian
\* 64-bit integer, so any value of 0..2^56-1; here any value of 0..MaxLuid.
LuidDomain == 0..MaxLuid

\* Image definitions as the backend returns them: an id per object, objects
\* nested in dicts and in lists.
ImageFlat(a) ==
    Dict(<<"id", "name">>, [id |-> Leaf(a), name |-> Leaf("image")])

ImageWithDrives(a, b, c) ==
    Dict(<<"name", "id", "hardDrives">>,
         [name |-> Leaf("image"), id |-> Leaf(a),
          hardDrives |-> List(<<Dict(<<"id">>, [id |-> Leaf(b)]),
                                Dict(<<"id", "size">>, [id |-> Leaf(c), size |-> Leaf("10GB")])>>)])

ImageWithNetwork(a, b, c) ==
    Dict(<<"id", "networkConnections">>,
         [id |-> Leaf(a),
          networkConnections |->
              List(<<Dict(<<"name", "device">>,
                          [name |-> Leaf("eth0"),
                           device |-> Dict(<<"ipConfig", "id">>,
                                           [ipConfig |-> Dict(<<"id">>, [id |-> Leaf(c)]),
                                            id |-> Leaf(b)])])>>)])

ImageListOfLists(a, b) ==
    List(<<Dict(<<"id">>, [id |-> Leaf(a)]),
           List(<<Dict(<<"id">>, [id |-> Leaf(b)])>>)>>)

ImageShapes == {"flat", "drives", "network", "lists"}

ImageTree(shape, a, b, c) ==
    CASE shape = "flat" -> ImageFlat(a)
      [] shape = "drives" -> ImageWithDrives(a, b, c)
      [] shape = "network" -> ImageWithNetwork(a, b, c)
      [] shape = "lists" -> ImageListOfLists(a, b)

\* The most id fields an image tree above holds.
MaxIdFields == 3

\* A slip that descends into dicts only and skips the lists.
is_container_dict_only(value) == value.kind = "dict"

\* isinstance(value, dict) or isinstance(value, list)
is_container(value) == value.kind = "dict" \/ value.kind = "list"

\* update_luids(obj), with the values that the calls of random_luid() return
\* read from `tape` in call order.  The result is the updated object and the
\* part of the tape that was not consumed.
RECURSIVE update_luids(_, _), update_luids_dict(_, _, _), update_luids_list(_, _, _)
update_luids(obj, tape) ==
    IF obj.kind = "dict" THEN update_luids_dict(obj, 1, tape)
    ELSE IF obj.kind = "list" THEN update_luids_list(obj, 1, tape)
    ELSE [obj |-> obj, tape |-> tape]

\* The loop `for key in obj` from the i-th key on.
update_luids_dict(obj, i, tape) ==
    IF i > Len(obj.keys) THEN [obj |-> obj, tape |-> tape]
    ELSE LET key == obj.keys[i]
             value == obj.items[key]
         IN  IF key = "id"
             THEN update_luids_dict([obj EXCEPT !.items[key] = Leaf(Head(tape))],
                                    i + 1, Tail(tape))
             ELSE IF is_container(value)
             THEN LET r == update_luids(value, tape)
                  IN  update_luids_dict([obj EXCEPT !.items[key] = r.obj], i + 1, r.tape)
             ELSE update_luids_dict(obj, i + 1, tape)

\* The loop `for elem in obj` from the i-th element on.
update_luids_list(obj, i, tape) ==
    IF i > Len(obj.elems) THEN [obj |-> obj, tape |-> tape]
    ELSE LET r == update_luids(obj.elems[i], tape)
         IN  update_luids_list([obj EXCEPT !.elems[i] = r.obj], i + 1, r.tape)

LuidInit ==
    /\ lu_src = [kind |-> "none"]
    /\ lu_draws = <<>>
    /\ lu_out = [kind |-> "none"]

\* get_full_image(id): the backend returns the image's definition.
FetchImage ==
    /\ lu_src.kind = "none"
    /\ \E shape \in ImageShapes, a \in LuidDomain, b \in LuidDomain, c \in LuidDomain :
           lu_src' = ImageTree(shape, a, b, c)
    /\ UNCHANGED <<lu_draws, lu_out>>
    /\ UNCHANGED othersOfLuid

\* One call update_luids(image) on the definition fetched.
UpdateLuids ==
    /\ lu_src.kind # "none"
    /\ lu_out.kind = "none"
    /\ \E tape \in [1..MaxIdFields -> LuidDomain] :
           LET r == update_luids(lu_src, tape)
           IN  /\ lu_draws' = SubSeq(tape, 1, MaxIdFields - Len(r.tape))
               /\ lu_out' = r.obj
    /\ UNCHANGED lu_src
    /\ UNCHANGED othersOfLuid

NextLuid ==
    \/ FetchImage
    \/ UpdateLuids

(***************************************************************************)
(* Names.  A name is a sequence of tokens: 'web:1' is <<"web", ":", "1">>. *)
(***************************************************************************)
Sep == ":"

\* The ordinals that can be in use: the applications present at the start
\* and the ones the invocations create.
OrdinalRange == 1..(MaxApps + 2 * MaxRuns + 1)

\* name.rfind(sep): the position of the last sep, 0 for Python's -1.
rfind(name, sep) ==
    IF \E i \in 1..Len(name) : name[i] = sep
    THEN CHOOSE i \in 1..Len(name) :
             name[i] = sep /\ \A j \in (i + 1)..Len(name) : name[j] # sep
    ELSE 0

splitname(name) ==
    LET pos == rfind(name, Sep)
    IN  IF pos # 0
        THEN <<SubSeq(name, 1, pos - 1), SubSeq(name, pos + 1, Len(name))>>
        ELSE <<name, <<>>>>

\* The decimal numerals of i that occur: '%d' % i, and the same after a zero.
Numerals(i) == {ToString(i), "0" \o ToString(i)}

\* int(suffix): the number a decimal suffix denotes, -1 for a ValueError.
ParseInt(suffix) ==
    IF Len(suffix) = 1 /\ \E i \in {0} \cup OrdinalRange : suffix[1] \in Numerals(i)
    THEN CHOOSE i \in {0} \cup OrdinalRange : suffix[1] \in Numerals(i)
    ELSE -1

\* '%d' % i
FormatInt(i) == ToString(i)

\* The set `used` that get_unused_name builds.
used_ordinals(name, current) ==
    { ParseInt(splitname(current[k].name)[2]) :
        k \in { k \in 1..Len(current) :
                  /\ splitname(current[k].name)[1] = name
                  /\ splitname(current[k].name)[2] # <<>> } }

\* A slip that counts from range(len(used)+2), that is from 0.
get_unused_name_from_zero(name, current) ==
    LET used == used_ordinals(name, current)
        suffix == CHOOSE i \in 0..(Cardinality(used) + 1) :
                      i \notin used /\ \A j \in 0..(i - 1) : j \in used
    IN  name \o <<Sep, FormatInt(suffix)>>

\* get_unused_name(name, current); <<"ValueError">> when a suffix is no number.
get_unused_name(name, current) ==
    LET used == used_ordinals(name, current)
    IN  IF -1 \in used THEN <<"ValueError">>
        ELSE LET suffix == CHOOSE i \in 1..(Cardinality(used) + 1) :
                               i \notin used /\ \A j \in 1..(i - 1) : j \in used
             IN  name \o <<Sep, FormatInt(suffix)>>

(***************************************************************************)
(* The backend and the "run" command's resolution of its environments      *)
(* (run.py: load_cache, start_applications).  The backend is not part of   *)
(* the program: an application is created with the VM it is given, whose   *)
(* shelfVmId is the id of the image it was made from, and is PUBLISHING    *)
(* once published; starting a STOPPED VM makes it STARTING.                *)
(***************************************************************************)
\* The states the backend of this component reports: the known ones and one other.
ResolveStates == KnownStates \cup {"ERROR"}

\* self.pubkey['id'], and the id of somebody else's key.
MyKey == "key1"

OtherKey == "key2"

\* self.images: the image listing; an environment's 'vm' names an image.
Images == <<[id |-> "img1", name |-> "fedora"], [id |-> "img2", name |-> "ubuntu"]>>

\* What get_image() and get_blueprint() return when nothing matches (None).
NoEntity == [id |-> "none", name |-> "none"]

\* get_image(name=name): the first image of the listing with that name.
get_image(name) ==
    IF \E i \in 1..Len(Images) : Images[i].name = name
    THEN Images[CHOOSE i \in 1..Len(Images) :
                   Images[i].name = name /\ \A j \in 1..(i - 1) : Images[j].name # name]
    ELSE NoEntity

\* The environment of the manifest: its 'name' and its 'vm'.
WebEnv == [name |-> <<"web">>, vm |-> "fedora"]

\* manifest['environments']: one environment, or two that carry the same 'name'.
Manifests == {<<WebEnv>>, <<WebEnv, WebEnv>>}

GoodVm(state) == [shelfVmId |-> "img1", state |-> state, userdata |-> MyKey]

\* What an application that exists before the command runs can look like: a
\* single VM of the right image and key in some state, or an application
\* that differs from that in one respect.
Profiles == ResolveStates \cup {"wrong_image", "wrong_keypair", "no_userdata",
                                "two_vms", "other_base", "no_suffix"}

ProfileVms(p) ==
    CASE p \in ResolveStates -> <<GoodVm(p)>>
      [] p = "wrong_image" -> <<[GoodVm("STARTED") EXCEPT !.shelfVmId = "img2"]>>
      [] p = "wrong_keypair" -> <<[GoodVm("STARTED") EXCEPT !.userdata = OtherKey]>>
      [] p = "no_userdata" -> <<[GoodVm("STARTED") EXCEPT !.userdata = "empty"]>>
      [] p = "two_vms" -> <<GoodVm("STARTED"), GoodVm("STARTED")>>
      [] OTHER -> <<GoodVm("STARTED")>>

ProfileName(i, p) ==
    CASE p = "other_base" -> <<"db", Sep, ToString(i)>>
      [] p = "no_suffix" -> <<"web">>
      [] OTHER -> <<"web", Sep, ToString(i)>>

\* The applications of slots 1..n, the absent ones left out.
RECURSIVE AppsOfSlots(_, _)
AppsOfSlots(prof, n) ==
    IF n = 0 THEN <<>>
    ELSE AppsOfSlots(prof, n - 1) \o
         (IF prof[n] = "absent" THEN <<>>
          ELSE <<[id |-> n, name |-> ProfileName(n, prof[n]), vms |-> ProfileVms(prof[n])]>>)

AppIds(apps) == { apps[k].id : k \in 1..Len(apps) }

BackendApp(id) ==
    LET k == CHOOSE k \in 1..Len(be_apps) : be_apps[k].id = id
    IN  be_apps[k]

\* RavelloClient.get_applications(): the appMetadata of every application.
Listing(apps) == [k \in 1..Len(apps) |-> [id |-> apps[k].id, name |-> apps[k].name]]

NextAppId ==
    LET ids == AppIds(be_apps) \cup {0}
    IN  1 + CHOOSE m \in ids : \A x \in ids : x <= m

\* A slip that sorts by the other table of the class.
VM_REUSE_STATES_as_preferences == <<"PUBLISHING", "STARTING", "STARTED", "STOPPED">>

VM_STATE_PREFERENCES == <<"STARTED", "STARTING", "STOPPED", "PUBLISHING">>

VM_REUSE_STATES == <<"PUBLISHING", "STARTING", "STARTED", "STOPPED">>

Range(seq) == { seq[i] : i \in 1..Len(seq) }

\* get_full_application(id) for every id of `ids`: a fetch for the ids that
\* are not cached, the cached object for the others.
FullAfterGet(full, ids) ==
    [id \in (DOMAIN full) \cup ids |->
        IF id \in DOMAIN full THEN full[id] ELSE BackendApp(id)]

\* A slip that does not look at the suffix.
name_matches_base_only(app, envdef) == splitname(app.name)[1] = envdef.name

\* The name test of the loop of _reuse_single_vm_application.
name_matches(app, envdef) ==
    LET parts == splitname(app.name)
    IN  ~(parts[1] # envdef.name \/ parts[2] = <<>>)

\* The tests on the full application that follow it.
vm_matches(app, envdef) ==
    LET image == get_image(envdef.vm)
        vms == app.vms
    IN  /\ Len(vms) = 1
        /\ vms[1].shelfVmId = image.id
        /\ vms[1].state \in Range(VM_REUSE_STATES)
        /\ vms[1].userdata # "empty"
        /\ vms[1].userdata = MyKey

\* candidates.sort(key=...): a stable sort by the index of the state.
RECURSIVE sort_by_key(_, _, _)
sort_by_key(cands, table, k) ==
    IF k > Len(table) THEN <<>>
    ELSE LET HasKey(c) == IndexOf(table, c.state) = k
         IN  SelectSeq(cands, HasKey) \o sort_by_key(cands, table, k + 1)

\* A slip that starts whatever the state.
start_always(state, appid) == <<[op |-> "start_vm", app |-> appid]>>

\* if state == 'STOPPED': self.api.start_vm(app, vm)
start_if_stopped(state, appid) ==
    IF state = "STOPPED" THEN <<[op |-> "start_vm", app |-> appid]>> ELSE <<>>

\* _reuse_single_vm_application(envdef): the id of the application to re-use
\* (0 for None), the cache and the API calls after it, and the candidates.
reuse_single_vm_application(envdef) ==
    LET Matches(a) == name_matches(a, envdef)
        named == SelectSeq(rs_applications, Matches)
        ids == { named[k].id : k \in 1..Len(named) }
        fetched == SelectSeq(named, LAMBDA a : a.id \notin DOMAIN rs_full)
        full == FullAfterGet(rs_full, ids)
        Survives(a) == vm_matches(full[a.id], envdef)
        survivors == SelectSeq(named, Survives)
        candidates == [k \in 1..Len(survivors) |->
                          [state |-> full[survivors[k].id].vms[1].state,
                           app |-> survivors[k].id]]
        sorted == sort_by_key(candidates, VM_STATE_PREFERENCES, 1)
        gets == [k \in 1..Len(fetched) |-> [op |-> "get_application", app |-> fetched[k].id]]
    IN  IF candidates = <<>>
        THEN [appid |-> 0, full |-> full, calls |-> gets, candidates |-> candidates,
              state |-> "none"]
        ELSE [appid |-> sorted[1].app, full |-> full,
              calls |-> gets \o start_if_stopped(sorted[1].state, sorted[1].app),
              candidates |-> candidates, state |-> sorted[1].state]

\* The backend after start_vm(app, vm) for the single VM of application id.
BackendStartVm(apps, id) ==
    [k \in 1..Len(apps) |->
        IF apps[k].id = id /\ apps[k].vms[1].state = "STOPPED"
        THEN [apps[k] EXCEPT !.vms[1].state = "STARTING"]
        ELSE apps[k]]

\* The backend after create_application(app): the new application is a design
\* that is not deployed, its VM has no run state yet.
BackendCreate(apps, app) ==
    Append(apps, [app EXCEPT !.vms = [k \in 1..Len(app.vms) |->
                                         [app.vms[k] EXCEPT !.state = "DRAFT"]]])

\* The backend after publish_application(app): the deployment begins.
BackendPublish(apps, id) ==
    [k \in 1..Len(apps) |->
        IF apps[k].id = id
        THEN [apps[k] EXCEPT !.vms = [j \in 1..Len(apps[k].vms) |->
                                         [apps[k].vms[j] EXCEPT !.state = "PUBLISHING"]]]
        ELSE apps[k]]

\* RavelloClient.get_application(id): the full application as the backend has it.
BackendGet(apps, id) == apps[CHOOSE k \in 1..Len(apps) : apps[k].id = id]

\* A slip that fills the cache before the application is published.
reload_then_publish(apps, id) ==
    [apps  |-> BackendPublish(apps, id),
     full  |-> BackendGet(apps, id),
     calls |-> <<[op |-> "get_application", app |-> id],
                 [op |-> "publish_application", app |-> id]>>]

\* The end of _create_new_single_vm_application(): publish, then the forced
\* reload of the full application into the cache.
publish_then_reload(apps, id) ==
    [apps  |-> BackendPublish(apps, id),
     full  |-> BackendGet(BackendPublish(apps, id), id),
     calls |-> <<[op |-> "publish_application", app |-> id],
                 [op |-> "get_application", app |-> id]>>]

NoResolution == [how |-> "none", app |-> 0, name |-> <<>>, state |-> "none",
                 candidates |-> <<>>]

ResolveInit ==
    /\ be_apps = <<>>
    /\ rs_pc = "setup"
    /\ rs_run = 0
    /\ rs_new = FALSE
    /\ rs_manifest = <<>>
    /\ rs_env_i = 1
    /\ rs_applications = <<>>
    /\ rs_full = <<>>
    /\ rs_appmap = <<>>
    /\ rs_calls = <<>>
    /\ rs_last = NoResolution

\* The project as the last invocation finds it: any applications, made by
\* the invocations before it or by other users.
SetupBackend ==
    /\ rs_pc = "setup"
    /\ \E prof \in [1..MaxApps -> Profiles \cup {"absent"}] :
           be_apps' = AppsOfSlots(prof, MaxApps)
    /\ rs_pc' = "idle"
    /\ rs_run' = MaxRuns - 1
    /\ UNCHANGED <<rs_new, rs_manifest, rs_env_i, rs_applications, rs_full,
                   rs_appmap, rs_calls, rs_last>>
    /\ UNCHANGED othersOfResolve

\* The project of scenario 1: no instance of environment `web` exists; other
\* applications may.
SetupNoInstance ==
    /\ rs_pc = "setup"
    /\ \E prof \in [1..MaxApps -> {"other_base", "no_suffix", "absent"}] :
           be_apps' = AppsOfSlots(prof, MaxApps)
    /\ rs_pc' = "idle"
    /\ UNCHANGED <<rs_run, rs_new, rs_manifest, rs_env_i, rs_applications, rs_full,
                   rs_appmap, rs_calls, rs_last>>
    /\ UNCHANGED othersOfResolve

\* A new process runs "ravtest run": SubCommand.__init__ and the arguments.
StartRun ==
    /\ rs_pc \in {"idle", "drifted"}
    /\ rs_run < MaxRuns
    /\ rs_run' = rs_run + 1
    /\ \E new \in BOOLEAN, manifest \in Manifests :
           /\ rs_new' = new
           /\ rs_manifest' = manifest
    /\ rs_env_i' = 1
    /\ rs_applications' = <<>>
    /\ rs_full' = <<>>
    /\ rs_appmap' = <<>>
    /\ rs_calls' = <<>>
    /\ rs_last' = NoResolution
    /\ rs_pc' = "started"
    /\ UNCHANGED be_apps
    /\ UNCHANGED othersOfResolve

\* load_cache(): self.applications = self.api.get_applications()
LoadCache ==
    /\ rs_pc = "started"
    /\ rs_applications' = Listing(be_apps)
    /\ rs_calls' = Append(rs_calls, [op |-> "get_applications", app |-> 0])
    /\ rs_pc' = "loaded"
    /\ UNCHANGED <<be_apps, rs_run, rs_new, rs_manifest, rs_env_i, rs_full, rs_appmap,
                   rs_last>>
    /\ UNCHANGED othersOfResolve

\* One round of the loop of start_applications(): the environment is resolved
\* to an application that is re-used,
ReuseApplication ==
    /\ rs_pc = "loaded"
    /\ rs_env_i <= Len(rs_manifest)
    /\ ~rs_new
    /\ LET envdef == rs_manifest[rs_env_i]
           r == reuse_single_vm_application(envdef)
       IN  /\ r.appid # 0
           /\ rs_full' = r.full
           /\ rs_calls' = rs_calls \o r.calls
           /\ be_apps' = IF r.state = "STOPPED" THEN BackendStartVm(be_apps, r.appid)
                         ELSE be_apps
           /\ rs_appmap' = (r.appid :> envdef.name) @@ rs_appmap
           /\ rs_last' = [how |-> "reuse", app |-> r.appid,
                          name |-> r.full[r.appid].name, state |-> r.state,
                          candidates |-> r.candidates]
    /\ rs_env_i' = rs_env_i + 1
    /\ UNCHANGED <<rs_pc, rs_run, rs_new, rs_manifest, rs_applications>>
    /\ UNCHANGED othersOfResolve

\* or, with --new or with nothing to re-use, to one that is created:
\* _create_new_single_vm_application(envdef).
CreateApplication ==
    /\ rs_pc = "loaded"
    /\ rs_env_i <= Len(rs_manifest)
    /\ LET envdef == rs_manifest[rs_env_i]
           r == IF rs_new
                THEN [appid |-> 0, full |-> rs_full, calls |-> <<>>, candidates |-> <<>>,
                      state |-> "none"]
                ELSE reuse_single_vm_application(envdef)
           image == get_image(envdef.vm)
           vm == [shelfVmId |-> image.id, state |-> "none", userdata |-> MyKey]
           name == get_unused_name(envdef.name, rs_applications)
           app == [id |-> NextAppId, name |-> name, vms |-> <<vm>>]
           p == publish_then_reload(BackendCreate(be_apps, app), app.id)
       IN  /\ r.appid = 0
           /\ name # <<"ValueError">>
           /\ be_apps' = p.apps
           /\ rs_full' = (app.id :> p.full) @@ r.full
           /\ rs_calls' = rs_calls \o r.calls \o
                          <<[op |-> "create_application", app |-> app.id]>> \o p.calls
           /\ rs_appmap' = (app.id :> envdef.name) @@ rs_appmap
           /\ rs_last' = [how |-> "create", app |-> app.id, name |-> name,
                          state |-> "PUBLISHING", candidates |-> r.candidates]
    /\ rs_env_i' = rs_env_i + 1
    /\ UNCHANGED <<rs_pc, rs_run, rs_new, rs_manifest, rs_applications>>
    /\ UNCHANGED othersOfResolve

\* start_applications() returns; the rest of the command runs and the process exits.
FinishRun ==
    /\ rs_pc = "loaded"
    /\ rs_env_i > Len(rs_manifest)
    /\ rs_pc' = "idle"
    /\ UNCHANGED <<be_apps, rs_run, rs_new, rs_manifest, rs_env_i, rs_applications,
                   rs_full, rs_appmap, rs_calls, rs_last>>
    /\ UNCHANGED othersOfResolve

\* Between two invocations the backend moves the VM of one instance of the
\* environment to another state.
BackendChange ==
    /\ rs_pc = "idle"
    /\ rs_run > 0
    /\ rs_run < MaxRuns
    /\ \E k \in 1..Len(be_apps), state \in ResolveStates :
           /\ splitname(be_apps[k].name)[1] = WebEnv.name
           /\ splitname(be_apps[k].name)[2] # <<>>
           /\ be_apps[k].vms[1].state # state
           /\ be_apps' = [be_apps EXCEPT ![k].vms[1].state = state]
    /\ rs_pc' = "drifted"
    /\ UNCHANGED <<rs_run, rs_new, rs_manifest, rs_env_i, rs_applications,
                   rs_full, rs_appmap, rs_calls, rs_last>>
    /\ UNCHANGED othersOfResolve

\* One invocation on any project.
NextReuse ==
    \/ SetupBackend
    \/ StartRun
    \/ LoadCache
    \/ ReuseApplication
    \/ CreateApplication
    \/ FinishRun

\* Invocations in a row on a project that starts without an instance of `web`.
NextScenario1 ==
    \/ SetupNoInstance
    \/ StartRun
    \/ LoadCache
    \/ ReuseApplication
    \/ CreateApplication
    \/ FinishRun
    \/ BackendChange

(***************************************************************************)
(* The check of the manifest against the listings before the environments  *)
(* are resolved (run.py: check_referenced_entities_in_manifest, run).       *)
(***************************************************************************)
MaxEnvs == 2

\* self.blueprints: the blueprint listing.
Blueprints == <<[id |-> "bp1", name |-> "lamp"]>>

\* get_blueprint(name=name)
get_blueprint(name) ==
    IF \E i \in 1..Len(Blueprints) : Blueprints[i].name = name
    THEN Blueprints[CHOOSE i \in 1..Len(Blueprints) :
                       Blueprints[i].name = name
                       /\ \A j \in 1..(i - 1) : Blueprints[j].name # name]
    ELSE NoEntity

\* The classes that can be imported.
Classes == {"testmill.tasks:SysinitTask"}

\* util.load_class(name): the class, or None (FALSE) when the import fails.
load_class(name) == name \in Classes

\* The definitions an environment can have: its 'vm', its 'blueprint'
\* ("none" when the key is absent) and the 'task' of one of its task
\* definitions ("none" for a definition that only lists commands).
EnvDefs ==
    [name : {<<"web">>}, vm : {"fedora", "nosuch"}, blueprint : {"none", "lamp", "nosuch"},
     task : {"none", "testmill.tasks:SysinitTask", "nosuch:Task"}]

\* check_referenced_entities_in_manifest(manifest), from environment i on:
\* "ok" when it returns, "exit1" with the message when it calls exit(1),
\* "IndexError" when formatting the message of an unknown task class raises
\* (the format string has three fields and format() gets one argument).
RECURSIVE check_referenced_entities_in_manifest(_, _)
check_referenced_entities_in_manifest(manifest, i) ==
    IF i > Len(manifest) THEN [out |-> "ok", log |-> <<>>]
    ELSE LET envdef == manifest[i]
         IN  IF get_image(envdef.vm) = NoEntity
             THEN [out |-> "exit1", log |-> <<"Unknown vm">>]
             ELSE IF envdef.blueprint # "none" /\ get_blueprint(envdef.blueprint) = NoEntity
             THEN [out |-> "exit1", log |-> <<"Unknown blueprint">>]
             ELSE IF envdef.task # "none" /\ ~load_class(envdef.task)
             THEN [out |-> "IndexError", log |-> <<>>]
             ELSE check_referenced_entities_in_manifest(manifest, i + 1)

\* The API calls that resolve one environment: the look at the candidates
\* for re-use, and the creation when none is taken.
Resolutions ==
    { <<"get_application">>,
      <<"get_application", "start_vm">>,
      <<"get_application", "create_application", "publish_application">>,
      <<"create_application", "publish_application">> }

CheckInit ==
    /\ cf_pc = "idle"
    /\ cf_manifest = <<>>
    /\ cf_env_i = 1
    /\ cf_calls = <<>>
    /\ cf_log = <<>>

\* run() up to load_cache(): the manifest is loaded and expanded, and it
\* names at least one environment.
CfLoadCache ==
    /\ cf_pc = "idle"
    /\ \E manifest \in SeqsUpTo(EnvDefs, MaxEnvs) :
         /\ manifest # <<>>
         /\ cf_manifest' = manifest
    /\ cf_pc' = "loaded"
    /\ UNCHANGED <<cf_env_i, cf_calls, cf_log>>
    /\ UNCHANGED othersOfCheck

\* self.check_referenced_entities_in_manifest(manifest)
CfCheck ==
    /\ cf_pc = "loaded"
    /\ LET r == check_referenced_entities_in_manifest(cf_manifest, 1)
       IN  /\ cf_log' = cf_log \o r.log
           /\ cf_pc' = CASE r.out = "ok" -> "checked"
                         [] r.out = "exit1" -> "exited"
                         [] OTHER -> "raised"
    /\ UNCHANGED <<cf_manifest, cf_env_i, cf_calls>>
    /\ UNCHANGED othersOfCheck

\* One round of the loop of start_applications(): an environment with a
\* blueprint is passed over, another one is resolved.
CfStartApplication ==
    /\ cf_pc = "checked"
    /\ cf_env_i <= Len(cf_manifest)
    /\ IF cf_manifest[cf_env_i].blueprint # "none"
       THEN UNCHANGED cf_calls
       ELSE \E calls \in Resolutions : cf_calls' = cf_calls \o calls
    /\ cf_env_i' = cf_env_i + 1
    /\ UNCHANGED <<cf_pc, cf_manifest, cf_log>>
    /\ UNCHANGED othersOfCheck

\* start_applications() returns.
CfStarted ==
    /\ cf_pc = "checked"
    /\ cf_env_i > Len(cf_manifest)
    /\ cf_pc' = "started"
    /\ UNCHANGED <<cf_manifest, cf_env_i, cf_calls, cf_log>>
    /\ UNCHANGED othersOfCheck

NextCheck ==
    \/ CfLoadCache
    \/ CfCheck
    \/ CfStartApplication
    \/ CfStarted

(***************************************************************************)
(* The caches of full objects (main.py: get_full_image,                    *)
(* get_full_application, get_full_blueprint; cache.py has the same three   *)
(* functions on env).  An object is identified by the number of the fetch  *)
(* that returned it; 0 stands for None.                                    *)
(***************************************************************************)
MaxGetCalls == 3

CacheIds == {"id1", "id2"}

Kinds == {"image", "application", "blueprint"}

EmptyCaches ==
    [c \in {"full_images", "full_applications", "full_blueprints"} |->
        [id \in CacheIds |-> 0]]

\* get_full_image(id, force_reload); `fresh` is what api.get_image(id) returns.
get_full_image(caches, id, force_reload, fresh) ==
    LET img == caches.full_images[id]
    IN  IF img = 0 \/ force_reload
        THEN [out |-> "ok", caches |-> [caches EXCEPT !.full_images[id] = fresh],
              result |-> fresh, fetched |-> TRUE]
        ELSE [out |-> "ok", caches |-> caches, result |-> img, fetched |-> FALSE]

\* get_full_application(id, force_reload)
get_full_application(caches, id, force_reload, fresh) ==
    LET app == caches.full_applications[id]
    IN  IF app = 0 \/ force_reload
        THEN [out |-> "ok", caches |-> [caches EXCEPT !.full_applications[id] = fresh],
              result |-> fresh, fetched |-> TRUE]
        ELSE [out |-> "ok", caches |-> caches, result |-> app, fetched |-> FALSE]

\* get_full_blueprint(id, force_reload): after the lookup the test reads
\* the name `app`, which is not defined, and raises NameError.
get_full_blueprint(caches, id, force_reload, fresh) ==
    LET bp == caches.full_applications[id]
    IN  [out |-> "NameError", caches |-> caches, result |-> 0, fetched |-> FALSE]

get_full(kind, caches, id, force_reload, fresh) ==
    CASE kind = "image" -> get_full_image(caches, id, force_reload, fresh)
      [] kind = "application" -> get_full_application(caches, id, force_reload, fresh)
      [] kind = "blueprint" -> get_full_blueprint(caches, id, force_reload, fresh)

\* The cache a kind is kept in.
CacheOf(kind) ==
    CASE kind = "image" -> "full_images"
      [] kind = "application" -> "full_applications"
      [] kind = "blueprint" -> "full_blueprints"

NoGet == [kind |-> "none", id |-> "none", force_reload |-> FALSE, before |-> 0,
          out |-> "none", result |-> 0, fetched |-> FALSE, fresh |-> 0]

CacheInit ==
    /\ fc_cache = EmptyCaches
    /\ fc_fetches = 0
    /\ fc_calls = 0
    /\ fc_last = NoGet

\* One call of get_full_image, get_full_application or get_full_blueprint.
GetFull ==
    /\ fc_calls < MaxGetCalls
    /\ \E kind \in Kinds, id \in CacheIds, force_reload \in BOOLEAN :
         LET fresh == fc_fetches + 1
             r == get_full(kind, fc_cache, id, force_reload, fresh)
         IN  /\ fc_cache' = r.caches
             /\ fc_fetches' = IF r.fetched THEN fresh ELSE fc_fetches
             /\ fc_last' = [kind |-> kind, id |-> id, force_reload |-> force_reload,
                            before |-> fc_cache[CacheOf(kind)][id], out |-> r.out,
                            result |-> r.result, fetched |-> r.fetched, fresh |-> fresh]
    /\ fc_calls' = fc_calls + 1
    /\ UNCHANGED othersOfCache

NextCache ==
    \/ GetFull

(***************************************************************************)
(* get_unused_name (util.py) on its own, called with any list of names.    *)
(***************************************************************************)
MaxNames == 3

\* The names an object of `current` can have: with the base of the call or
\* another, without separator, with an empty suffix, with a suffix that is
\* a numeral and with one that is not.
NamePool ==
    { <<"web">>, <<"web", Sep>>, <<"web", Sep, "0">>, <<"web", Sep, "1">>,
      <<"web", Sep, "01">>, <<"web", Sep, "2">>, <<"web", Sep, "3">>,
      <<"web", Sep, "prod">>, <<"db", Sep, "1">>, <<"db", Sep, "web", Sep, "1">> }

NamesInit ==
    /\ nm_name = <<"none">>
    /\ nm_current = <<>>
    /\ nm_result = <<>>

\* util.get_unused_name(name, current)
GetUnusedName ==
    /\ nm_name = <<"none">>
    /\ \E name \in {<<"web">>, <<"db">>, <<"db", Sep, "web">>},
          names \in SeqsUpTo(NamePool, MaxNames) :
         LET current == [k \in 1..Len(names) |-> [name |-> names[k]]]
         IN  /\ nm_name' = name
             /\ nm_current' = current
             /\ nm_result' = get_unused_name(name, current)
    /\ UNCHANGED othersOfNames

NextNames ==
    \/ GetUnusedName

(***************************************************************************)
(* The VM of a new application: the full image from the cache, made into   *)
(* a VM definition.  Python dicts and lists are objects: a function that   *)
(* updates its argument in place updates every holder of the object.       *)
(***************************************************************************)
\* obj[key] = value on a dict.
setitem(obj, key, value) ==
    IF \E i \in 1..Len(obj.keys) : obj.keys[i] = key
    THEN [obj EXCEPT !.items = [k \in DOMAIN obj.items |->
                                   IF k = key THEN value ELSE obj.items[k]]]
    ELSE [obj EXCEPT !.keys = Append(obj.keys, key),
                     !.items = (key :> value) @@ obj.items]

\* obj.setdefault(key, value)
setdefault(obj, key, value) ==
    IF \E i \in 1..Len(obj.keys) : obj.keys[i] = key THEN obj ELSE setitem(obj, key, value)

\* The images of the catalog: a VM image is a dict.
CatalogShapes == {"flat", "drives", "network"}

CatalogImage(shape) == ImageTree(shape, 0, 1, 2)

NoObject == [kind |-> "none"]

\* The applications one process creates from the image.
MaxCreates == 2

\* Values of random_luid(): one that an id of the catalog has, and another.
SomeLuids == {0, MaxLuid}

\* get_full_image(id) on the cache `held`: the object held, or the one fetched.
cached_full_image(held, backend) == IF held.kind = "none" THEN backend ELSE held

\* _create_new_single_vm_application(), its lines that build the VM: the
\* object from the cache is updated in place, so the cache holds the result.
create_vm_run(held, backend, tape) ==
    LET image == cached_full_image(held, backend)
        r == update_luids(image, tape)
        vm == setitem(r.obj, "customVmConfigurationData", Leaf(MyKey))
    IN  [vm |-> vm, held |-> vm]

\* create_new_vm(vmdef): the same on a deep copy of the object from the cache.
create_new_vm(held, backend, tape) ==
    LET image == cached_full_image(held, backend)
        r == update_luids(image, tape)
        named == setitem(r.obj, "name", Leaf("vm1"))
        keyed == setitem(named, "customVmConfigurationData", Leaf(MyKey))
        hosted == setitem(keyed, "hostname", List(<<Leaf("vm1")>>))
        vm == setdefault(hosted, "suppliedServices", List(<<>>))
    IN  [vm |-> vm, held |-> image]

TemplateInit ==
    /\ ct_path = "none"
    /\ ct_image = NoObject
    /\ ct_full_images = NoObject
    /\ ct_vms = <<>>

\* A process starts with empty caches; the catalog holds the image.
CtStart ==
    /\ ct_path = "none"
    /\ \E path \in {"run", "api"}, shape \in CatalogShapes :
           /\ ct_path' = path
           /\ ct_image' = CatalogImage(shape)
    /\ UNCHANGED <<ct_full_images, ct_vms>>
    /\ UNCHANGED othersOfTemplate

\* One application is created from the image: the first, and a later one.
CtCreateVm ==
    /\ ct_path # "none"
    /\ Len(ct_vms) < MaxCreates
    /\ \E tape \in [1..MaxIdFields -> SomeLuids] :
           \E r \in { IF ct_path = "run"
                      THEN create_vm_run(ct_full_images, ct_image, tape)
                      ELSE create_new_vm(ct_full_images, ct_image, tape) } :
               /\ ct_full_images' = r.held
               /\ ct_vms' = Append(ct_vms, r.vm)
    /\ UNCHANGED <<ct_path, ct_image>>
    /\ UNCHANGED othersOfTemplate

NextTemplate ==
    \/ CtStart
    \/ CtCreateVm

(***************************************************************************)
(* The initial state and the specifications of the components.             *)
(***************************************************************************)
(***************************************************************************)
(* The ssh reachability probe: RunCommand.wait_until_vms_accept_ssh        *)
(* (run.py).  Time is counted in rounds: every round that does not end the *)
(* loop lasts poll_timeout, by select() running out of time or by the      *)
(* sleep that follows.                                                     *)
(***************************************************************************)
\* What a non-blocking connect() to port 22 of an address leads to:
\*   accept       EINPROGRESS, then writable with SO_ERROR = 0
\*   refused      EINPROGRESS, then writable with SO_ERROR # 0
\*   silent       EINPROGRESS, never writable
\*   unreachable  connect() fails at once with an errno other than EINPROGRESS
Behaviours == {"accept", "refused", "silent", "unreachable"}

\* time.time() > end_time, after `rounds` rounds of poll_timeout each (a
\* round takes poll_timeout and the time of its calls).
deadline_passed(rounds) == rounds >= ProbeBudget

RECURSIVE SetToSeq(_)
\* list(waitfds): the addresses in ascending order.
SetToSeq(S) ==
    IF S = {} THEN <<>>
    ELSE LET m == CHOOSE x \in S : \A y \in S : x <= y
         IN  <<m>> \o SetToSeq(S \ {m})

\* A slip that takes the pending error of a socket for its success.
so_error_inverted(addr, failed) == ~(addr \in failed)

\* getsockopt(SOL_SOCKET, SO_ERROR) of the socket of addr is non-zero;
\* `failed` are the sockets whose connection has been refused by now.
so_error(addr, failed) == addr \in failed

RECURSIVE handle_wfds(_, _, _)
\* The loop `for fd in wfds` of one select(): [alive, addrs, waitfds, open].
handle_wfds(wfds, failed, st) ==
    IF wfds = <<>> THEN st
    ELSE LET addr == Head(wfds)
             error == so_error(addr, failed)
             next == [alive   |-> IF error THEN st.alive ELSE Append(st.alive, addr),
                      addrs   |-> IF error THEN st.addrs ELSE st.addrs \ {addr},
                      waitfds |-> st.waitfds \ {addr},
                      open    |-> st.open \ {addr}]
         IN  handle_wfds(Tail(wfds), failed, next)

ProbeState == [alive |-> pr_alive, addrs |-> pr_addrs, waitfds |-> pr_waitfds,
               open |-> pr_open]

ProbeInit ==
    /\ pr_pc = "setup"
    /\ pr_behaviour = <<>>
    /\ pr_addrs = {}
    /\ pr_alive = <<>>
    /\ pr_waitfds = {}
    /\ pr_open = {}
    /\ pr_clock = 0
    /\ pr_signals = 0
    /\ pr_progress = <<>>
    /\ pr_log = <<>>

\* The call: addrmap is given, end_time is set, addrs = set(addrmap).
ProbeCall ==
    /\ pr_pc = "setup"
    /\ \E n \in 0..MaxAddrs :
         \E b \in [1..n -> Behaviours] :
           /\ pr_behaviour' = b
           /\ pr_addrs' = 1..n
    /\ pr_pc' = "loop"
    /\ UNCHANGED <<pr_alive, pr_waitfds, pr_open, pr_clock, pr_signals,
                   pr_progress, pr_log>>
    /\ UNCHANGED othersOfProbe

\* The head of a round: the deadline test, then a socket and a connect()
\* for every address of addrs.  A connect() that fails with another errno
\* than EINPROGRESS is logged and re-raised; the sockets made before it stay
\* as they are.
ProbeConnect ==
    /\ pr_pc = "loop"
    /\ IF deadline_passed(pr_clock)
       THEN /\ pr_pc' = "final"
            /\ UNCHANGED <<pr_waitfds, pr_open, pr_log>>
       ELSE LET bad == { a \in pr_addrs : pr_behaviour[a] = "unreachable" }
            IN  IF bad = {}
                THEN /\ pr_waitfds' = pr_addrs
                     /\ pr_open' = pr_addrs
                     /\ pr_pc' = "select"
                     /\ UNCHANGED pr_log
                ELSE \E a \in bad, before \in SUBSET (pr_addrs \ bad) :
                     /\ pr_waitfds' = before
                     /\ pr_open' = before \cup {a}
                     /\ pr_log' = Append(pr_log, "connect(): errno")
                     /\ pr_pc' = "raised"
    /\ UNCHANGED <<pr_behaviour, pr_addrs, pr_alive, pr_clock, pr_signals, pr_progress>>
    /\ UNCHANGED othersOfProbe

\* The sockets of the round the kernel can report writable.
Ready == { a \in pr_waitfds : pr_behaviour[a] \in {"accept", "refused"} }

\* select() returns some sockets as writable; each is asked for SO_ERROR,
\* closed and taken from waitfds; without error its address is alive.
ProbeSelectWritable ==
    /\ pr_pc = "select"
    /\ \E W \in (SUBSET Ready) \ {{}} :
         LET failed == { a \in W : pr_behaviour[a] = "refused" }
             st == handle_wfds(SetToSeq(W), failed, ProbeState)
         IN  /\ pr_alive' = st.alive
             /\ pr_addrs' = st.addrs
             /\ pr_waitfds' = st.waitfds
             /\ pr_open' = st.open
             /\ pr_pc' = IF st.waitfds = {} THEN "after" ELSE "select"
    /\ UNCHANGED <<pr_behaviour, pr_clock, pr_signals, pr_progress, pr_log>>
    /\ UNCHANGED othersOfProbe

\* select() is interrupted by a signal (EINTR): the exception is swallowed
\* and wfds is still list(waitfds), so the loop `for fd in wfds` handles
\* every socket of the round.  A socket whose connection is in progress has
\* no pending error.
ProbeSelectInterrupted ==
    /\ pr_pc = "select"
    /\ pr_signals < MaxSignals
    /\ pr_waitfds # {}
    /\ pr_signals' = pr_signals + 1
    /\ \E failed \in SUBSET { a \in pr_waitfds : pr_behaviour[a] = "refused" } :
         LET st == handle_wfds(SetToSeq(pr_waitfds), failed, ProbeState)
         IN  /\ pr_alive' = st.alive
             /\ pr_addrs' = st.addrs
             /\ pr_waitfds' = st.waitfds
             /\ pr_open' = st.open
    /\ pr_pc' = "after"
    /\ UNCHANGED <<pr_behaviour, pr_clock, pr_progress, pr_log>>
    /\ UNCHANGED othersOfProbe

\* select() runs until poll_end_time with nothing writable: the next turn
\* of the inner loop closes the sockets still waited for and leaves it.
ProbeSelectTimeout ==
    /\ pr_pc = "select"
    /\ Ready = {}
    /\ pr_open' = pr_open \ pr_waitfds
    /\ pr_pc' = "after"
    /\ UNCHANGED <<pr_behaviour, pr_addrs, pr_alive, pr_waitfds, pr_clock,
                   pr_signals, pr_progress, pr_log>>
    /\ UNCHANGED othersOfProbe

\* The end of a round: leave when addrs is empty, else progress('C') and
\* sleep until poll_end_time.
ProbeRoundEnd ==
    /\ pr_pc = "after"
    /\ IF pr_addrs = {}
       THEN /\ pr_pc' = "final"
            /\ UNCHANGED <<pr_progress, pr_clock>>
       ELSE /\ pr_progress' = Append(pr_progress, "C")
            /\ pr_clock' = pr_clock + 1
            /\ pr_pc' = "loop"
    /\ UNCHANGED <<pr_behaviour, pr_addrs, pr_alive, pr_waitfds, pr_open,
                   pr_signals, pr_log>>
    /\ UNCHANGED othersOfProbe

\* After the loop: the report of the addresses that did not come up, or
\* exit(1) in the elif branch; alive is returned.
ProbeReturn ==
    /\ pr_pc = "final"
    /\ IF Len(pr_alive) # Cardinality(DOMAIN pr_behaviour)
       THEN /\ pr_log' = Append(pr_log, "Could not start")
            /\ pr_pc' = "returned"
       ELSE IF Len(pr_alive) = 0
            THEN /\ pr_log' = Append(pr_log, "no VM came up, exiting")
                 /\ pr_pc' = "exited"
            ELSE /\ pr_pc' = "returned"
                 /\ UNCHANGED pr_log
    /\ UNCHANGED <<pr_behaviour, pr_addrs, pr_alive, pr_waitfds, pr_open,
                   pr_clock, pr_signals, pr_progress>>
    /\ UNCHANGED othersOfProbe

NextProbe ==
    \/ ProbeCall
    \/ ProbeConnect
    \/ ProbeSelectWritable
    \/ ProbeSelectInterrupted
    \/ ProbeSelectTimeout
    \/ ProbeRoundEnd
    \/ ProbeReturn

(***************************************************************************)
(* The sysinit stage: SysinitTask.run and Task.run (run.py), on one host.  *)
(***************************************************************************)
\* Commands are strings, modelled as sequences of characters.
Commands == {<<"a">>, <<"a", "a">>}

CommandLists == SeqsUpTo(Commands, MaxCommands)

NUL == "\\000"

RECURSIVE sha1_input(_)
\* What is fed to the digest: every command followed by a NUL character.
\* The digest is taken to have no collisions, so the token is its input.
sha1_input(commands) ==
    IF commands = <<>> THEN <<>>
    ELSE Head(commands) \o <<NUL>> \o sha1_input(Tail(commands))

\* name = '~/sysinit-%s.done' % token
marker_name(commands) == <<"~/sysinit-">> \o sha1_input(commands) \o <<".done">>

\* A slip that never finds the marker.
test_f_never(files, name) == FALSE

\* fab.run('test -f name', warn_only=True).succeeded
test_f(files, name) == name \in files

\* Task.run(sudo=True): the commands run in order; a command that exits
\* non-zero aborts the run unless env.warn_only is set.  fail_at is the
\* first command that fails (0: none does).
Task_run(commands, fail_at, warn_only) ==
    IF fail_at \in 1..Len(commands) /\ ~warn_only
    THEN [executed |-> SubSeq(commands, 1, fail_at), aborted |-> TRUE]
    ELSE [executed |-> commands, aborted |-> FALSE]

\* SysinitTask.run(); fail_at = Len(commands) + 1 is a failing `touch`.
SysinitTask_run(files, commands, fail_at, warn_only) ==
    LET name == marker_name(commands)
        r == Task_run(commands, fail_at, warn_only)
        touched == fail_at # Len(commands) + 1
    IN  IF test_f(files, name)
        THEN [files |-> files, executed |-> <<>>, outcome |-> "skipped",
              touched |-> FALSE]
        ELSE IF r.aborted
        THEN [files |-> files, executed |-> r.executed, outcome |-> "aborted",
              touched |-> FALSE]
        ELSE IF touched
        THEN [files |-> files \cup {name}, executed |-> r.executed,
              outcome |-> "done", touched |-> TRUE]
        ELSE [files |-> files, executed |-> r.executed,
              outcome |-> IF warn_only THEN "done" ELSE "aborted",
              touched |-> FALSE]

NoInvocation == [commands |-> <<>>, warn_only |-> FALSE, fail_at |-> 0,
                 executed |-> <<>>, outcome |-> "none", touched |-> FALSE]

SysinitInit ==
    /\ si_n = 0
    /\ si_files = {}
    /\ si_prev = NoInvocation
    /\ si_last = NoInvocation

\* One invocation of the stage on the host.
SysinitRun ==
    /\ si_n < MaxInvocations
    /\ si_n' = si_n + 1
    /\ \E commands \in CommandLists, warn_only \in BOOLEAN :
         \E fail_at \in 0..(Len(commands) + 1) :
           LET r == SysinitTask_run(si_files, commands, fail_at, warn_only)
           IN  /\ si_files' = r.files
               /\ si_last' = [commands |-> commands, warn_only |-> warn_only,
                              fail_at |-> fail_at, executed |-> r.executed,
                              outcome |-> r.outcome, touched |-> r.touched]
    /\ si_prev' = si_last
    /\ UNCHANGED othersOfSysinit

NextSysinit == SysinitRun

(***************************************************************************)
(* The state polling loop: RunCommand.wait_until_applications_are_up       *)
(* (run.py) and SubCommand.wait_until_applications_are_up (main.py).  One  *)
(* step polls one application of list(waitapps); time is counted in rounds *)
(* as for the probe.                                                       *)
(***************************************************************************)
\* The states the backend reports for a VM while the loop runs.
PollLabels == KnownStates \cup {"ERROR"}

\* What one get_full_application(appid, force_reload=True) shows: the
\* states of the n VMs of the application.
Observations(n) == [1..n -> PollLabels]

RECURSIVE status_counters(_, _)
\* app['cloudVmsStatusCounters']: one entry for every status that occurs.
status_counters(states, seen) ==
    IF states = <<>> THEN <<>>
    ELSE IF Head(states) \in seen THEN status_counters(Tail(states), seen)
    ELSE <<Head(states)>> \o status_counters(Tail(states), seen \cup {Head(states)})

VM_WAIT_STATES == <<"PUBLISHING", "STARTING", "STARTED">>

\* The value of min_state and app_min_state before any state is seen.
NoState == Len(VM_WAIT_STATES)

RECURSIVE scan_counters(_, _)
\* The loop over cloudVmsStatusCounters of one application (run.py):
\* [min: app_min_state, removes: the calls of waitapps.remove(appid)].
scan_counters(counters, acc) ==
    IF counters = <<>> THEN acc
    ELSE LET i == IndexOf(VM_WAIT_STATES, Head(counters))
             state == IF i = 0 THEN NoState ELSE i - 1
         IN  scan_counters(Tail(counters),
                 [min |-> Min(acc.min, state),
                  removes |-> acc.removes + (IF i = 0 THEN 1 ELSE 0)])

\* One turn of `for appid in list(waitapps)` in run.py.  waitapps.remove()
\* of an application that is not in the set raises KeyError.
poll_app_run(appid, obs, st) ==
    LET scan == scan_counters(status_counters(obs, {}), [min |-> NoState, removes |-> 0])
        up == scan.min = NoState - 1
        removes == scan.removes + (IF up THEN 1 ELSE 0)
    IN  [waitapps  |-> IF removes > 0 THEN st.waitapps \ {appid} ELSE st.waitapps,
         alive     |-> IF up THEN Append(st.alive, appid) ELSE st.alive,
         min_state |-> Min(st.min_state, scan.min),
         raised    |-> removes > 1]

\* One turn of `for appid in list(waitapps)` in main.py.
poll_app_main(appid, obs, st) ==
    LET app_state == get_application_state(obs)
    IN  IF app_state = "STARTED"
        THEN [waitapps  |-> st.waitapps \ {appid},
              alive     |-> Append(st.alive, appid),
              min_state |-> combine_states(st.min_state, app_state),
              raised    |-> FALSE]
        ELSE IF app_state \notin {"PUBLISHING", "STARTING"}
        THEN [waitapps  |-> st.waitapps \ {appid},
              alive     |-> st.alive,
              min_state |-> st.min_state,
              raised    |-> FALSE]
        ELSE [waitapps  |-> st.waitapps,
              alive     |-> st.alive,
              min_state |-> combine_states(st.min_state, app_state),
              raised    |-> FALSE]

\* A slip that mixes up the two codes.
progress_code_run_swapped(min_state) ==
    IF min_state = 0 THEN <<"S">> ELSE IF min_state = 1 THEN <<"P">> ELSE <<>>

\* The code run.py hands to progress() at the end of a round, if any.
progress_code_run(min_state) ==
    IF min_state = 0 THEN <<"P">> ELSE IF min_state = 1 THEN <<"S">> ELSE <<>>

\* min_state[0], the code main.py hands to show_progress().
progress_code_main(min_state) ==
    IF min_state = "PUBLISHING" THEN <<"P">>
    ELSE IF min_state \in {"STARTING", "STARTED", "STOPPED", "STOPPING"} THEN <<"S">>
    ELSE <<"E">>

\* time.time() > end_time after `rounds` rounds of poll_timeout each.
poll_deadline_passed(rounds) == rounds >= PollBudget

PollInit ==
    /\ po_pc = "setup"
    /\ po_impl = "none"
    /\ po_appmap = {}
    /\ po_vms = <<>>
    /\ po_waitapps = {}
    /\ po_alive = <<>>
    /\ po_round = 0
    /\ po_todo = <<>>
    /\ po_min_state = NoState
    /\ po_progress = <<>>
    /\ po_trace = <<>>
    /\ po_log = <<>>

\* The call: end_time is set, waitapps = set(appmap).
PollCall ==
    /\ po_pc = "setup"
    /\ \E n \in 0..MaxPollApps, impl \in {"run", "main"} :
         /\ po_impl' = impl
         /\ po_appmap' = 1..n
         /\ po_waitapps' = 1..n
         /\ po_vms' \in [1..n -> 1..MaxVms]
         /\ po_trace' = [a \in 1..n |-> <<>>]
    /\ po_pc' = "loop"
    /\ UNCHANGED <<po_alive, po_round, po_todo, po_min_state, po_progress, po_log>>
    /\ UNCHANGED othersOfPoll

\* The head of a round: the deadline test, min_state is reset and the
\* applications of list(waitapps) are lined up.
PollRoundStart ==
    /\ po_pc = "loop"
    /\ IF poll_deadline_passed(po_round)
       THEN /\ po_pc' = "final"
            /\ UNCHANGED <<po_todo, po_min_state>>
       ELSE /\ po_pc' = "apps"
            /\ po_todo' = SetToSeq(po_waitapps)
            /\ po_min_state' = IF po_impl = "run" THEN NoState ELSE "STARTED"
    /\ UNCHANGED <<po_impl, po_appmap, po_vms, po_waitapps, po_alive, po_round,
                   po_progress, po_trace, po_log>>
    /\ UNCHANGED othersOfPoll

\* One application is fetched and its state handled.
PollApp ==
    /\ po_pc = "apps"
    /\ po_todo # <<>>
    /\ \E obs \in Observations(po_vms[Head(po_todo)]) :
         LET appid == Head(po_todo)
             st == [waitapps |-> po_waitapps, alive |-> po_alive,
                    min_state |-> po_min_state]
             r == IF po_impl = "run" THEN poll_app_run(appid, obs, st)
                  ELSE poll_app_main(appid, obs, st)
         IN  /\ po_waitapps' = r.waitapps
             /\ po_alive' = r.alive
             /\ po_min_state' = r.min_state
             /\ po_trace' = [po_trace EXCEPT
                                ![appid] = Append(@, get_application_state(obs))]
             /\ po_pc' = IF r.raised THEN "raised" ELSE "apps"
    /\ po_todo' = Tail(po_todo)
    /\ UNCHANGED <<po_impl, po_appmap, po_vms, po_round, po_progress, po_log>>
    /\ UNCHANGED othersOfPoll

\* The end of a round: leave when waitapps is empty, else the progress
\* code and the sleep of poll_timeout.
PollRoundEnd ==
    /\ po_pc = "apps"
    /\ po_todo = <<>>
    /\ IF po_waitapps = {}
       THEN /\ po_pc' = "final"
            /\ UNCHANGED <<po_progress, po_round>>
       ELSE /\ po_progress' = po_progress \o
                                 (IF po_impl = "run"
                                  THEN progress_code_run(po_min_state)
                                  ELSE progress_code_main(po_min_state))
            /\ po_round' = po_round + 1
            /\ po_pc' = "loop"
    /\ UNCHANGED <<po_impl, po_appmap, po_vms, po_waitapps, po_alive, po_todo,
                   po_min_state, po_trace, po_log>>
    /\ UNCHANGED othersOfPoll

\* After the loop: run.py reports the applications still pending and exits
\* when all of them are; main.py returns alive.
PollReturn ==
    /\ po_pc = "final"
    /\ IF po_impl = "run" /\ Cardinality(po_waitapps) = Cardinality(po_appmap)
       THEN /\ po_log' = Append(po_log, "no application could be started up, exiting")
            /\ po_pc' = "exited"
       ELSE IF po_impl = "run" /\ po_waitapps # {}
            THEN /\ po_log' = Append(po_log, "Could not start")
                 /\ po_pc' = "returned"
            ELSE /\ po_pc' = "returned"
                 /\ UNCHANGED po_log
    /\ UNCHANGED <<po_impl, po_appmap, po_vms, po_waitapps, po_alive, po_round, po_todo,
                   po_min_state, po_progress, po_trace>>
    /\ UNCHANGED othersOfPoll

NextPoll ==
    \/ PollCall
    \/ PollRoundStart
    \/ PollApp
    \/ PollRoundEnd
    \/ PollReturn

(***************************************************************************)
(* The task pipeline of RunCommand.run (run.py): pack on one host, the     *)
(* init actions on every host (in one forked process per host when there   *)
(* are several), then execute host after host.  Every stage is taken to    *)
(* have a task in the manifest.  A command that exits non-zero makes       *)
(* Fabric abort the process unless env.warn_only is set.                   *)
(***************************************************************************)
\* A slip that unpacks before it copies.
init_actions_unpack_first == <<"renew", "sysinit", "unpack", "copy", "prepare">>

init_actions == <<"renew", "sysinit", "copy", "unpack", "prepare">>

\* The stages whose commands can exit non-zero; renew runs `... || true`.
CanFail == {"pack", "sysinit", "copy", "unpack", "prepare", "execute"}

\* A slip that lets a failing command abort whatever warn_only says.
task_run_abort(stage, marker, fails, warn_only) ==
    IF stage = "sysinit" /\ marker
    THEN [outcome |-> "skipped", marker |-> marker, abort |-> FALSE]
    ELSE IF fails
    THEN [outcome |-> "failed", marker |-> marker, abort |-> TRUE]
    ELSE [outcome |-> "ok",
          marker |-> IF stage = "sysinit" THEN TRUE ELSE marker,
          abort |-> FALSE]

\* What one task does on a host: [outcome, marker, abort].  `fails` says
\* whether one of its commands exits non-zero.
task_run(stage, marker, fails, warn_only) ==
    IF stage = "sysinit" /\ marker
    THEN [outcome |-> "skipped", marker |-> marker, abort |-> FALSE]
    ELSE IF fails /\ ~warn_only
    THEN [outcome |-> "failed", marker |-> marker, abort |-> TRUE]
    ELSE [outcome |-> IF fails THEN "failed" ELSE "ok",
          marker |-> IF stage = "sysinit" THEN TRUE ELSE marker,
          abort |-> FALSE]

\* The choices for `fails` of a stage on a host.
Failing(stage, marker) ==
    IF stage \in CanFail /\ ~(stage = "sysinit" /\ marker) /\ pl_failures < MaxFailures
    THEN BOOLEAN ELSE {FALSE}

PipelineInit ==
    /\ pl_pc = "setup"
    /\ pl_addrmap = {}
    /\ pl_alive = <<>>
    /\ pl_hosts = <<>>
    /\ pl_continue = FALSE
    /\ pl_marker = <<>>
    /\ pl_pos = <<>>
    /\ pl_dead = <<>>
    /\ pl_exec_i = 1
    /\ pl_ran = <<>>
    /\ pl_failures = 0

\* The sequences that list every element of the set S once.
Orderings(S) ==
    { q \in [1..Cardinality(S) -> S] : \A i, j \in 1..Cardinality(S) : q[i] = q[j] => i = j }

\* A slip that keeps every address that was waited for.
all_addresses(addrmap, alive) == addrmap

\* addrmap = dict(((addr, addrmap[addr]) for addr in alive)): its keys.
alive_addresses(addrmap, alive) == { alive[k] : k \in 1..Len(alive) }

\* The probe has returned `alive` for the addresses of addrmap.
\* setup_fabric_environment(): fab.env.hosts = list(addrmap), the keys of the
\* dict in the order of its iteration.
SetupFabricEnvironment ==
    /\ pl_pc = "setup"
    /\ \E n \in 0..MaxHosts, c \in BOOLEAN :
         \E up \in SUBSET (1..n) :
           \E alive \in Orderings(up) :
             \E hosts \in Orderings(alive_addresses(1..n, alive)) :
               /\ pl_addrmap' = 1..n
               /\ pl_alive' = alive
               /\ pl_hosts' = hosts
               /\ pl_continue' = c
               /\ pl_marker' \in [Range(hosts) -> BOOLEAN]
               /\ pl_pos' = [h \in Range(hosts) |-> 1]
               /\ pl_dead' = [h \in Range(hosts) |-> FALSE]
               /\ pl_ran' = [h \in Range(hosts) |-> <<>>]
    /\ pl_pc' = "pack"
    /\ UNCHANGED <<pl_exec_i, pl_failures>>
    /\ UNCHANGED othersOfPipeline

\* execute(run_task, 'pack', manifest, hosts=[hosts[0]]); hosts[0] raises
\* IndexError when no host is alive.
Pack ==
    /\ pl_pc = "pack"
    /\ IF pl_hosts = <<>>
       THEN /\ pl_pc' = "raised"
            /\ UNCHANGED <<pl_ran, pl_failures>>
       ELSE LET h == pl_hosts[1]
            IN  \E fails \in Failing("pack", pl_marker[h]) :
                  LET r == task_run("pack", pl_marker[h], fails, pl_continue)
                  IN  /\ pl_ran' = [pl_ran EXCEPT ![h] =
                                       Append(@, [stage |-> "pack", outcome |-> r.outcome])]
                      /\ pl_failures' = pl_failures + (IF fails THEN 1 ELSE 0)
                      /\ pl_pc' = IF r.abort THEN "aborted" ELSE "init"
    /\ UNCHANGED <<pl_addrmap, pl_alive, pl_hosts, pl_continue, pl_marker, pl_pos,
                   pl_dead, pl_exec_i>>
    /\ UNCHANGED othersOfPipeline

\* env.parallel = len(hosts) > 1
parallel == Len(pl_hosts) > 1

\* run_tasks(init_actions) on one host: its next action.  An abort ends
\* the run when the host is the only one, and the process of the host when
\* the hosts run in parallel.
InitAction ==
    /\ pl_pc = "init"
    /\ \E h \in DOMAIN pl_pos :
         /\ pl_pos[h] <= Len(init_actions)
         /\ ~pl_dead[h]
         /\ LET stage == init_actions[pl_pos[h]]
            IN  \E fails \in Failing(stage, pl_marker[h]) :
                  LET r == task_run(stage, pl_marker[h], fails, pl_continue)
                  IN  /\ pl_ran' = [pl_ran EXCEPT ![h] =
                                       Append(@, [stage |-> stage, outcome |-> r.outcome])]
                      /\ pl_marker' = [pl_marker EXCEPT ![h] = r.marker]
                      /\ pl_failures' = pl_failures + (IF fails THEN 1 ELSE 0)
                      /\ pl_pos' = [pl_pos EXCEPT ![h] = @ + 1]
                      /\ pl_dead' = [pl_dead EXCEPT ![h] = r.abort /\ parallel]
                      /\ pl_pc' = IF r.abort /\ ~parallel THEN "aborted" ELSE "init"
    /\ UNCHANGED <<pl_addrmap, pl_alive, pl_hosts, pl_continue, pl_exec_i>>
    /\ UNCHANGED othersOfPipeline

\* A slip that goes on as soon as one host is through.
joined_any(pos, dead) ==
    \E h \in DOMAIN pos : pos[h] > Len(init_actions) \/ dead[h]

\* Every host's run_tasks(init_actions) has returned or was aborted:
\* fabric.tasks.execute() joins the processes of all hosts.
joined(pos, dead) ==
    \A h \in DOMAIN pos : pos[h] > Len(init_actions) \/ dead[h]

\* execute(run_tasks, ...) returns when every host is through; with a
\* process that was aborted it aborts the run.
InitDone ==
    /\ pl_pc = "init"
    /\ joined(pl_pos, pl_dead)
    /\ pl_pc' = IF \E h \in DOMAIN pl_dead : pl_dead[h] THEN "aborted" ELSE "execute"
    /\ UNCHANGED <<pl_addrmap, pl_alive, pl_hosts, pl_continue, pl_marker, pl_pos,
                   pl_dead, pl_exec_i, pl_ran, pl_failures>>
    /\ UNCHANGED othersOfPipeline

\* A slip that leaves out hosts=[host]: the task runs on fab.env.hosts.
execute_on_env_hosts(hosts, i) == Range(hosts)

\* fabric.tasks.execute(task, hosts=[host]) in turn i of `for host in
\* fab.env.hosts`: the hosts the task runs on.
execute_hosts(hosts, i) == {hosts[i]}

\* The hosts whose execute task has begun and not ended.
Running == { h \in DOMAIN pl_ran :
               \E k \in 1..Len(pl_ran[h]) :
                   pl_ran[h][k].stage = "execute" /\ pl_ran[h][k].outcome = "running" }

\* One turn of `for host in fab.env.hosts` begins: the execute task of the
\* host starts its command.
ExecuteBegin ==
    /\ pl_pc = "execute"
    /\ pl_exec_i <= Len(pl_hosts)
    /\ Running = {}
    /\ pl_ran' = [h \in DOMAIN pl_ran |->
                     IF h \in execute_hosts(pl_hosts, pl_exec_i)
                     THEN Append(pl_ran[h], [stage |-> "execute", outcome |-> "running"])
                     ELSE pl_ran[h]]
    /\ UNCHANGED <<pl_pc, pl_addrmap, pl_alive, pl_hosts, pl_continue, pl_marker, pl_pos,
                   pl_dead, pl_exec_i, pl_failures>>
    /\ UNCHANGED othersOfPipeline

\* The command ends, execute() returns and the loop goes to the next host.
ExecuteEnd ==
    /\ pl_pc = "execute"
    /\ \E h \in Running :
         \E fails \in Failing("execute", pl_marker[h]) :
             LET r == task_run("execute", pl_marker[h], fails, pl_continue)
             IN  /\ pl_ran' = [pl_ran EXCEPT ![h][Len(pl_ran[h])].outcome = r.outcome]
                 /\ pl_failures' = pl_failures + (IF fails THEN 1 ELSE 0)
                 /\ pl_pc' = IF r.abort THEN "aborted" ELSE "execute"
    /\ pl_exec_i' = pl_exec_i + 1
    /\ UNCHANGED <<pl_addrmap, pl_alive, pl_hosts, pl_continue, pl_marker, pl_pos,
                   pl_dead>>
    /\ UNCHANGED othersOfPipeline

\* disconnect_all() and exit(0).
PipelineExit ==
    /\ pl_pc = "execute"
    /\ pl_exec_i > Len(pl_hosts)
    /\ pl_pc' = "exit0"
    /\ UNCHANGED <<pl_addrmap, pl_alive, pl_hosts, pl_continue, pl_marker, pl_pos,
                   pl_dead, pl_exec_i, pl_ran, pl_failures>>
    /\ UNCHANGED othersOfPipeline

\* The exit status of the process when the run is over: exit(0) at the end
\* of run(), 1 from Fabric's abort and from an exception nobody catches.
exit_status == IF pl_pc = "exit0" THEN 0 ELSE 1

NextPipeline ==
    \/ SetupFabricEnvironment
    \/ Pack
    \/ InitAction
    \/ InitDone
    \/ ExecuteBegin
    \/ ExecuteEnd
    \/ PipelineExit

(***************************************************************************)
(* The deferred shutdown of one host: its at queue through the tasks of a  *)
(* run (renew empties it, execute schedules the shutdown and then runs the *)
(* user command).                                                          *)
(***************************************************************************)
\* The 90 of min(90, keep).
ShutdownCap == 90

\* The minutes of `keep` an environment can have: below, at and above the cap.
KeepValues == {1, ShutdownCap - 1, ShutdownCap, ShutdownCap + 1, 2 * ShutdownCap}

\* A slip that schedules at `keep` minutes.
shutdown_delay_keep(keep) == keep

\* delay = min(90, self.manifest[name]['keep'])
shutdown_delay(keep) == Min(ShutdownCap, keep)

ShutdownInit ==
    /\ sd_pc = "idle"
    /\ sd_keep = 0
    /\ sd_continue = FALSE
    /\ sd_marker = FALSE
    /\ sd_pos = 1
    /\ sd_jobs = <<>>
    /\ sd_log = <<>>

\* The host is alive and the run comes to its tasks.  A host that an earlier
\* run used has the shutdown job of that run in its queue, and the marker.
SdStart ==
    /\ sd_pc = "idle"
    /\ \E keep \in KeepValues, c \in BOOLEAN, used \in BOOLEAN :
         /\ sd_keep' = keep
         /\ sd_continue' = c
         /\ sd_marker' = used
         /\ sd_jobs' = IF used THEN <<shutdown_delay(keep)>> ELSE <<>>
    /\ sd_pc' = "stages"
    /\ UNCHANGED <<sd_pos, sd_log>>
    /\ UNCHANGED othersOfShutdown

\* RenewTask.run(): atrm of every job of the queue, `|| true`.
SdRenew ==
    /\ sd_pc = "stages"
    /\ sd_pos <= Len(init_actions)
    /\ init_actions[sd_pos] = "renew"
    /\ sd_jobs' = <<>>
    /\ sd_log' = Append(sd_log, [op |-> "atrm", stage |-> "renew", delay |-> 0])
    /\ sd_pos' = sd_pos + 1
    /\ UNCHANGED <<sd_pc, sd_keep, sd_continue, sd_marker>>
    /\ UNCHANGED othersOfShutdown

\* sysinit, copy, unpack, prepare, as run_tasks() runs them on the host.
SdInitAction ==
    /\ sd_pc = "stages"
    /\ sd_pos <= Len(init_actions)
    /\ init_actions[sd_pos] # "renew"
    /\ LET stage == init_actions[sd_pos]
       IN  \E fails \in (IF stage = "sysinit" /\ sd_marker THEN {FALSE} ELSE BOOLEAN) :
             LET r == task_run(stage, sd_marker, fails, sd_continue)
             IN  /\ sd_log' = Append(sd_log, [op |-> r.outcome, stage |-> stage, delay |-> 0])
                 /\ sd_marker' = r.marker
                 /\ sd_pc' = IF r.abort THEN "aborted" ELSE "stages"
    /\ sd_pos' = sd_pos + 1
    /\ UNCHANGED <<sd_keep, sd_continue, sd_jobs>>
    /\ UNCHANGED othersOfShutdown

\* ExecuteTask.run(), its first statement: schedule_shutdown().
SdScheduleShutdown ==
    /\ sd_pc = "stages"
    /\ sd_pos > Len(init_actions)
    /\ sd_jobs' = Append(sd_jobs, shutdown_delay(sd_keep))
    /\ sd_log' = Append(sd_log, [op |-> "at", stage |-> "execute",
                                 delay |-> shutdown_delay(sd_keep)])
    /\ sd_pc' = "scheduled"
    /\ UNCHANGED <<sd_keep, sd_continue, sd_marker, sd_pos>>
    /\ UNCHANGED othersOfShutdown

\* ExecuteTask.run(), its second statement: the user command.
SdCommand ==
    /\ sd_pc = "scheduled"
    /\ \E fails \in BOOLEAN :
         LET r == task_run("execute", sd_marker, fails, sd_continue)
         IN  /\ sd_log' = Append(sd_log, [op |-> r.outcome, stage |-> "execute", delay |-> 0])
             /\ sd_pc' = IF r.abort THEN "aborted" ELSE "done"
    /\ UNCHANGED <<sd_keep, sd_continue, sd_marker, sd_pos, sd_jobs>>
    /\ UNCHANGED othersOfShutdown

NextShutdown ==
    \/ SdStart
    \/ SdRenew
    \/ SdInitAction
    \/ SdScheduleShutdown
    \/ SdCommand

(***************************************************************************)
(* The API client: RavelloClient (ravello.py).  A call is computed as one  *)
(* step from the client and a tape of network outcomes, one outcome for    *)
(* every connect() and every request in the order they are made; when the  *)
(* tape is used up the network answers 200.                                *)
(***************************************************************************)
\* RavelloClient.default_retries
default_retries == 3

\* A slip that takes 500 for a success.
OK_CODES_with_500 == {200, 201, 202, 204, 500}

OK_CODES == {200, 201, 202, 204}

\* What a connect() or a request/getresponse can give: an exception, a
\* status, or (for POST /login) a 200 without a JSESSIONID cookie.
Exceptions == {"socket.timeout", "ssl.timeout", "socket.error"}

Statuses == {200, 500}

Outcomes ==
    { [exc |-> e, status |-> 0, set_cookie |-> FALSE] : e \in Exceptions }
    \cup { [exc |-> "none", status |-> st, set_cookie |-> TRUE] : st \in Statuses }
    \cup { [exc |-> "none", status |-> 200, set_cookie |-> FALSE] }

\* The answer of a network that works.
Fine == [exc |-> "none", status |-> 200, set_cookie |-> TRUE]

Methods == {"GET", "HEAD", "PUT", "POST", "DELETE"}

\* A slip that retries whatever the exception.
should_retry_always(exc) == TRUE

\* should_retry(exc): socket.timeout, or an SSLError with 'time' in its message.
should_retry(exc) == exc \in {"socket.timeout", "ssl.timeout"}

\* A slip that takes every verb for idempotent.
idempotent_always(method) == TRUE

idempotent(method) == method \in {"GET", "HEAD", "PUT"}

NoCookie == [kind |-> "none", n |-> 0]

TokenCookie == [kind |-> "token", n |-> 0]

SessionCookie(n) == [kind |-> "JSESSIONID", n |-> n]

Raise(exc, status, msg) ==
    [kind |-> "raise", exc |-> exc, status |-> status, msg |-> msg, set_cookie |-> FALSE]

Response(status, set_cookie) ==
    [kind |-> "response", exc |-> "none", status |-> status, msg |-> "", set_cookie |-> set_cookie]

\* RavelloClient(username/password or token, retries=arg).
NewClient(mode, arg) ==
    [mode |-> mode,
     retries |-> IF arg = 0 THEN default_retries ELSE arg,
     connection |-> 0, cookie |-> NoCookie, project |-> 0, total_retries |-> 0,
     conns |-> 0, logins |-> 0, tape |-> <<>>, events |-> <<>>]

\* What the client did, in order: the turns of the retry loop ("attempt"),
\* the connections made and closed, the logins, the requests sent with
\* their Cookie header, the responses read with their status, the
\* exceptions the loop caught ("except"), the retries it counted ("retry")
\* and the cookies that logins set ("cookie").
Ev(op, conn, method, url, cookie) ==
    [op |-> op, conn |-> conn, method |-> method, url |-> url, cookie |-> cookie,
     exc |-> "none", status |-> 0]

Event(c, e) == [c EXCEPT !.events = Append(@, e)]

\* The next outcome of the network.
NextOutcome(c) == IF c.tape = <<>> THEN Fine ELSE Head(c.tape)

Consume(c) == IF c.tape = <<>> THEN c ELSE [c EXCEPT !.tape = Tail(@)]

\* A slip that leaves the connection open.
close_nothing(c) == c

\* close()
close(c) ==
    LET c1 == IF c.connection # 0
              THEN Event(c, Ev("close", c.connection, "", "", NoCookie))
              ELSE c
    IN  [c1 EXCEPT !.connection = 0, !.cookie = NoCookie]

\* _connect()
connect_(c) ==
    LET out == NextOutcome(c)
        c1 == Consume(c)
    IN  IF out.exc # "none"
        THEN [c |-> c1, r |-> Raise(out.exc, 0, "connect")]
        ELSE [c |-> Event([c1 EXCEPT !.connection = c.conns + 1, !.conns = @ + 1,
                                     !.cookie = NoCookie],
                          Ev("connect", c.conns + 1, "", "", NoCookie)),
              r |-> Response(200, FALSE)]

\* connection.request(method, url, body, headers); getresponse(); read().
\* hdr is the Cookie header of the request.
send(c, method, url, hdr) ==
    LET out == NextOutcome(c)
        c1 == Event(Consume(c), Ev("request", c.connection, method, url, hdr))
    IN  IF out.exc # "none" THEN [c |-> c1, r |-> Raise(out.exc, 0, "request")]
        ELSE [c |-> Event(c1, [Ev("response", c.connection, method, url, hdr)
                                 EXCEPT !.status = out.status]),
              r |-> Response(out.status, out.set_cookie)]

\* self._cookie = cookie in _login(); the event tells which cookie the
\* session of the connection has from now on.
set_cookie(c, cookie) ==
    Event([c EXCEPT !.cookie = cookie], Ev("cookie", c.connection, "", "", cookie))

\* A slip that takes one turn too many.
turns_one_more(c) == c.retries + 1

\* range(self.retries): the number of turns of the retry loop.
turns(c) == c.retries

\* F(v), with v computed once.
Let(v, F(_)) == CHOOSE y \in { F(x) : x \in {v} } : TRUE

RECURSIVE retry_request(_, _, _, _, _), attempt(_, _, _, _), make_request(_, _, _),
          login_(_), fetch_project(_)
\* _retry_request(method, url, body, headers), from turn i of its loop on.
retry_request(c, method, url, hdr, i) ==
    IF i >= turns(c)
    THEN [c |-> c, r |-> Raise("RavelloError", 0, "maximum retries reached")]
    ELSE Let(attempt(Event(c, Ev("attempt", c.connection, method, url, hdr)),
                     method, url, hdr),
             LAMBDA a :
               IF a.r.kind = "response" THEN a
               ELSE Let(Event(close(a.c), [Ev("except", 0, method, url, hdr)
                                              EXCEPT !.exc = a.r.exc]),
                        LAMBDA closed :
                          IF ~should_retry(a.r.exc) \/ ~idempotent(method)
                          THEN [c |-> closed, r |-> a.r]
                          ELSE retry_request(
                                 [Event(closed, Ev("retry", 0, method, url, hdr))
                                    EXCEPT !.total_retries = @ + 1],
                                 method, url, hdr, i + 1)))

\* The body of the try statement of _retry_request: connect and log in
\* when there is no connection, then the request.
attempt(c, method, url, hdr) ==
    IF c.connection # 0 THEN send(c, method, url, hdr)
    ELSE Let(connect_(c),
             LAMBDA k :
               IF k.r.kind = "raise" THEN k
               ELSE Let(login_(k.c),
                        LAMBDA l : IF l.r.kind = "raise" THEN l
                                   ELSE send(l.c, method, url, hdr)))

\* _make_request(method, url): the Cookie header is made from _cookie before
\* the request is handed to _retry_request.
make_request(c, method, url) ==
    Let(retry_request(c, method, url, c.cookie, 0),
        LAMBDA rr :
          IF rr.r.kind = "raise"
          THEN IF rr.r.exc \in Exceptions
               THEN [c |-> rr.c, r |-> Raise("RavelloError", 0, "error making API call")]
               ELSE rr
          ELSE IF rr.r.status \notin OK_CODES
          THEN [c |-> rr.c, r |-> Raise("RavelloError", rr.r.status, "operation failed")]
          ELSE rr)

\* _login(): with a password POST /login and the JSESSIONID cookie of the
\* response; with a token the token is the cookie and GET /hello tries it;
\* then the default project is fetched if it is not known.
login_(c) ==
    Let(Event(c, Ev("login", c.connection, "", "", NoCookie)),
        LAMBDA c0 :
          IF c.mode = "password"
          THEN Let(make_request(c0, "POST", "/login"),
                   LAMBDA post :
                     IF post.r.kind = "raise" THEN post
                     ELSE IF post.r.set_cookie
                     THEN fetch_project(set_cookie([post.c EXCEPT !.logins = @ + 1],
                                                   SessionCookie(post.c.logins + 1)))
                     ELSE [c |-> post.c, r |-> Raise("RavelloError", 0, "login failed")])
          ELSE Let(make_request(set_cookie(c0, TokenCookie), "GET", "/hello"),
                   LAMBDA hello : IF hello.r.kind = "raise" THEN hello
                                  ELSE fetch_project(hello.c)))

\* The end of _login(): self._project = get_projects()[0]['id'].
fetch_project(c) ==
    IF c.project # 0 THEN [c |-> c, r |-> Response(200, FALSE)]
    ELSE Let(make_request(c, "GET", "/projects"),
             LAMBDA projects :
               IF projects.r.kind = "raise" THEN projects
               ELSE [c |-> [projects.c EXCEPT !.project = 1], r |-> projects.r])

\* The tapes of at most n outcomes; a tape does not end with the answer
\* the network gives anyway when the tape is used up.
Tapes(n) == { t \in SeqsUpTo(Outcomes, n) : t = <<>> \/ t[Len(t)] # Fine }

\* The client as an API call finds it, with the tape of the call.
Loaded(tape) == [gw_client EXCEPT !.tape = tape, !.events = <<>>]

\* What is kept of the client after a call.
Unloaded(c) == [c EXCEPT !.tape = <<>>, !.events = <<>>]

NoCall == [op |-> "none", method |-> "", before |-> NewClient("none", 0),
           tape |-> <<>>, events |-> <<>>, r |-> Response(200, FALSE)]

GatewayInit ==
    /\ gw_client = NewClient("none", 0)
    /\ gw_left = MaxOutcomes
    /\ gw_ops = 0
    /\ gw_last = NoCall

\* RavelloClient(...): with a username and password, or with a token.
GwCreate ==
    /\ gw_client.mode = "none"
    /\ \E mode \in {"password", "token"}, arg \in 0..MaxRetriesArg :
         gw_client' = NewClient(mode, arg)
    /\ UNCHANGED <<gw_left, gw_ops, gw_last>>
    /\ UNCHANGED othersOfGateway

\* The effect of a call that took tape t and ended as res = [c, r].
GwDone(op, method, t, res) ==
    /\ res.c.tape = <<>>
    /\ gw_client' = Unloaded(res.c)
    /\ gw_left' = gw_left - Len(t)
    /\ gw_ops' = gw_ops + 1
    /\ gw_last' = [op |-> op, method |-> method, before |-> gw_client,
                   tape |-> t, events |-> res.c.events, r |-> res.r]

\* connect(url)
api_connect(c) ==
    IF c.connection # 0
    THEN [c |-> c, r |-> Raise("RuntimeError", 0, "already connected")]
    ELSE Let(connect_(c),
             LAMBDA k :
               IF k.r.kind = "raise"
               THEN [c |-> k.c, r |-> Raise("RavelloError", 0, "could not connect to API")]
               ELSE k)

\* login()
api_login(c) ==
    IF c.cookie # NoCookie
    THEN [c |-> c, r |-> Raise("RuntimeError", 0, "already logged in")]
    ELSE login_(c)

\* connect(): does not retry.
GwConnect ==
    /\ gw_client.mode # "none"
    /\ gw_ops < MaxOps
    /\ \E t \in Tapes(Min(gw_left, 1)) :
         \E res \in { api_connect(Loaded(t)) } : GwDone("connect", "", t, res)
    /\ UNCHANGED othersOfGateway

\* login(): with the credentials the client was made with.
GwLogin ==
    /\ gw_client.mode # "none"
    /\ gw_ops < MaxOps
    /\ \E t \in Tapes(gw_left) :
         \E res \in { api_login(Loaded(t)) } : GwDone("login", "", t, res)
    /\ UNCHANGED othersOfGateway

\* An API method: one _make_request() with its verb.
GwCall ==
    /\ gw_client.mode # "none"
    /\ gw_ops < MaxOps
    /\ \E method \in Methods, t \in Tapes(gw_left) :
         \E res \in { make_request(Loaded(t), method, "/call") } :
            GwDone("call", method, t, res)
    /\ UNCHANGED othersOfGateway

NextGateway ==
    \/ GwCreate
    \/ GwConnect
    \/ GwLogin
    \/ GwCall

Init ==
    /\ CombineInit
    /\ LuidInit
    /\ ResolveInit
    /\ ProbeInit
    /\ SysinitInit
    /\ PollInit
    /\ PipelineInit
    /\ GatewayInit
    /\ CheckInit
    /\ CacheInit
    /\ NamesInit
    /\ TemplateInit
    /\ ShutdownInit

SpecCombine == Init /\ [][NextCombine]_vars

SpecLuid == Init /\ [][NextLuid]_vars

SpecReuse == Init /\ [][NextReuse]_vars

SpecScenario1 == Init /\ [][NextScenario1]_vars

SpecProbe == Init /\ [][NextProbe]_vars

SpecSysinit == Init /\ [][NextSysinit]_vars

SpecPoll == Init /\ [][NextPoll]_vars

SpecPipeline == Init /\ [][NextPipeline]_vars

SpecGateway == Init /\ [][NextGateway]_vars

SpecCheck == Init /\ [][NextCheck]_vars

SpecCache == Init /\ [][NextCache]_vars

SpecNames == Init /\ [][NextNames]_vars

SpecTemplate == Init /\ [][NextTemplate]_vars

SpecShutdown == Init /\ [][NextShutdown]_vars

(***************************************************************************)
(* Claims about combine_states.                                            *)
(***************************************************************************)
\* The ordered sequence the specification states for known states.
StatedOrder == <<"PUBLISHING", "STOPPED", "STARTING", "STARTED">>

CombineCalled == cs_fn = "combine_states"

\* C1: for known states a and b, combine_states(a, b) is the one of a and b
\* with the lower index in [PUBLISHING, STOPPED, STARTING, STARTED].
C1_LowerIndexWins ==
    (CombineCalled /\ cs_args[1] \in KnownStates /\ cs_args[2] \in KnownStates)
        => /\ cs_result \in {cs_args[1], cs_args[2]}
           /\ IndexOf(StatedOrder, cs_result) <= IndexOf(StatedOrder, cs_args[1])
           /\ IndexOf(StatedOrder, cs_result) <= IndexOf(StatedOrder, cs_args[2])

C1_Witness ==
    /\ CombineCalled
    /\ cs_args = <<"STARTED", "STOPPED">>
    /\ cs_result = "STOPPED"

\* The previous call was combine_states with the arguments of this call swapped.
SwappedPair ==
    /\ CombineCalled
    /\ cs_prev # <<>>
    /\ cs_prev[1] = <<cs_args[2], cs_args[1]>>

\* C2 (as stated): combine_states(a, b) = combine_states(b, a) for every pair
\* of labels, known or unknown, and combine_states(a, a) = a.
C2_CommutativeIdempotent_Original ==
    /\ SwappedPair => cs_result = cs_prev[2]
    /\ (CombineCalled /\ cs_args[1] = cs_args[2]) => cs_result = cs_args[1]

\* C2 (amended): combine_states(a, a) = a for every label, and
\* combine_states(a, b) = combine_states(b, a) whenever a or b is a known
\* state or a = b.  For two different unknown labels the first argument wins.
C2_CommutativeIdempotent ==
    /\ (SwappedPair /\ (cs_args[1] \in KnownStates \/ cs_args[2] \in KnownStates
                        \/ cs_args[1] = cs_args[2]))
            => cs_result = cs_prev[2]
    /\ (SwappedPair /\ cs_args[1] \notin KnownStates /\ cs_args[2] \notin KnownStates)
            => (cs_result = cs_args[1] /\ cs_prev[2] = cs_args[2])
    /\ (CombineCalled /\ cs_args[1] = cs_args[2]) => cs_result = cs_args[1]

C2_Witness ==
    /\ SwappedPair
    /\ cs_args = <<"STARTING", "ERROR">>
    /\ cs_result = "ERROR"
    /\ cs_prev[2] = "ERROR"

\* C3: combining a known state with an unknown label yields the unknown
\* label, in either argument position.
C3_UnknownPropagates ==
    /\ (CombineCalled /\ cs_args[1] \in KnownStates /\ cs_args[2] \notin KnownStates)
            => cs_result = cs_args[2]
    /\ (CombineCalled /\ cs_args[1] \notin KnownStates /\ cs_args[2] \in KnownStates)
            => cs_result = cs_args[1]

C3_Witness ==
    /\ CombineCalled
    /\ cs_args = <<"PUBLISHING", "STOPPING">>
    /\ cs_result = "STOPPING"

(***************************************************************************)
(* Claims about update_luids.                                              *)
(***************************************************************************)
\* The values of the id fields of a tree, at every depth, in the order in
\* which a walk over dicts (key by key) and lists (element by element)
\* meets them.  An id field is a key "id" of a dict.
RECURSIVE IdsOf(_), IdsOfDict(_, _), IdsOfList(_, _)
IdsOf(obj) ==
    IF obj.kind = "dict" THEN IdsOfDict(obj, 1)
    ELSE IF obj.kind = "list" THEN IdsOfList(obj, 1)
    ELSE <<>>

IdsOfDict(obj, i) ==
    IF i > Len(obj.keys) THEN <<>>
    ELSE (IF obj.keys[i] = "id" THEN <<obj.items["id"].val>>
          ELSE IdsOf(obj.items[obj.keys[i]])) \o IdsOfDict(obj, i + 1)

IdsOfList(obj, i) ==
    IF i > Len(obj.elems) THEN <<>>
    ELSE IdsOf(obj.elems[i]) \o IdsOfList(obj, i + 1)

\* A tree with every id field's value blanked: what is left is everything
\* update_luids is not meant to touch.
RECURSIVE Skeleton(_)
Skeleton(obj) ==
    IF obj.kind = "dict"
    THEN [obj EXCEPT !.items = [k \in DOMAIN obj.items |->
                                   IF k = "id" THEN Leaf("id") ELSE Skeleton(obj.items[k])]]
    ELSE IF obj.kind = "list"
    THEN [obj EXCEPT !.elems = [i \in DOMAIN obj.elems |-> Skeleton(obj.elems[i])]]
    ELSE obj

Distinct(seq) == \A i, j \in 1..Len(seq) : i # j => seq[i] # seq[j]

LuidsUpdated == lu_out.kind # "none"

\* The ids of the result differ from the source's, place by place, and from
\* each other.
FreshAndDistinct ==
    /\ Len(IdsOf(lu_out)) = Len(IdsOf(lu_src))
    /\ \A i \in 1..Len(IdsOf(lu_out)) : IdsOf(lu_out)[i] # IdsOf(lu_src)[i]
    /\ Distinct(IdsOf(lu_out))

\* C5 (as stated): after update_luids every id field at every depth differs
\* from the value at the same place in the source tree, and no two id fields
\* of the result are equal.
C5_FreshDistinctIds_Original == LuidsUpdated => FreshAndDistinct

\* C5 (amended): after update_luids every id field at every depth holds the
\* value of its own call of random_luid() (one call per id field, no call
\* for anything else), and nothing but the id fields has changed; the ids
\* differ from the source's and from each other whenever the values drawn
\* differ from the source's ids and from each other.
C5_EveryIdRedrawn ==
    LuidsUpdated =>
        /\ IdsOf(lu_out) = lu_draws
        /\ Len(lu_draws) = Len(IdsOf(lu_src))
        /\ Skeleton(lu_out) = Skeleton(lu_src)
        /\ (Distinct(lu_draws)
               /\ \A i \in 1..Len(lu_draws) : lu_draws[i] # IdsOf(lu_src)[i])
              => FreshAndDistinct

C5_Witness ==
    /\ LuidsUpdated
    /\ lu_src = ImageWithNetwork(0, 1, 2)
    /\ IdsOf(lu_out) = <<1, 0, 2>>
    /\ FreshAndDistinct

(***************************************************************************)
(* Claims about the resolution of environments.                            *)
(***************************************************************************)
\* The preference order the specification states for re-use.
StatedPreference == <<"STARTED", "STARTING", "STOPPED", "PUBLISHING">>

CandidateStates == { rs_last.candidates[k].state : k \in 1..Len(rs_last.candidates) }

\* C4: the resolver picks a candidate whose state has the lowest index in
\* STARTED, STARTING, STOPPED, PUBLISHING among the candidates that survive
\* the filter, in whatever order they were listed; with candidates STARTED,
\* STOPPED and PUBLISHING it picks the STARTED one.
C4_BestCandidateChosen ==
    /\ (rs_last.how = "create" /\ ~rs_new) => rs_last.candidates = <<>>
    /\ rs_last.how = "reuse" =>
          /\ \E k \in 1..Len(rs_last.candidates) :
                 /\ rs_last.candidates[k].app = rs_last.app
                 /\ rs_last.candidates[k].state = rs_last.state
          /\ \A s \in CandidateStates :
                 IndexOf(StatedPreference, rs_last.state) <= IndexOf(StatedPreference, s)
          /\ {"STARTED", "STOPPED", "PUBLISHING"} \subseteq CandidateStates
                 => rs_last.state = "STARTED"

C4_Witness ==
    /\ rs_last.how = "reuse"
    /\ Len(rs_last.candidates) = 3
    /\ rs_last.candidates[1].state = "PUBLISHING"
    /\ rs_last.candidates[2].state = "STOPPED"
    /\ rs_last.candidates[3].state = "STARTED"
    /\ rs_last.app = rs_last.candidates[3].app

Web1 == <<"web", Sep, "1">>

\* The instances of environment `web` the backend holds.
WebInstances ==
    { k \in 1..Len(be_apps) :
        splitname(be_apps[k].name)[1] = <<"web">> /\ splitname(be_apps[k].name)[2] # <<>> }

Creations == { i \in 1..Len(rs_calls) : rs_calls[i].op = "create_application" }

\* C8: with no instance of `web`, resolving `web` creates exactly one
\* instance, named web:1; a second invocation without --new re-uses web:1
\* if it is still STARTED, and creates nothing.
C8_CreateThenReuse ==
    /\ (rs_run = 1 /\ rs_manifest = <<WebEnv>> /\ rs_env_i = 2)
          => /\ rs_last.how = "create"
             /\ rs_last.name = Web1
             /\ Cardinality(Creations) = 1
             /\ Cardinality(WebInstances) = 1
             /\ \A k \in WebInstances : be_apps[k].name = Web1
    /\ (rs_run = 2 /\ ~rs_new /\ rs_pc = "loaded" /\ rs_env_i > 1
          /\ \E k \in WebInstances :
                be_apps[k].name = Web1 /\ be_apps[k].vms[1].state = "STARTED")
          => /\ rs_last.how = "reuse"
             /\ rs_last.name = Web1
             /\ rs_last.state = "STARTED"
             /\ Creations = {}

C8_Witness ==
    /\ rs_run = 2
    /\ ~rs_new
    /\ rs_manifest = <<WebEnv>>
    /\ rs_pc = "loaded"
    /\ rs_last.how = "reuse"
    /\ rs_last.name = Web1
    /\ Cardinality(WebInstances) = 1
    /\ Creations = {}

(***************************************************************************)
(* Claims about the reachability probe.                                    *)
(***************************************************************************)
\* The addresses whose port accepts the connection.
Accepting == { a \in DOMAIN pr_behaviour : pr_behaviour[a] = "accept" }

\* C6: given N addresses of which K accept at once and N-K never do, the
\* probe ends within its budget of rounds and returns exactly the K
\* accepting addresses.
C6_ReturnsExactlyAccepting ==
    /\ pr_clock <= ProbeBudget
    /\ pr_pc \in {"returned", "exited"} => Range(pr_alive) = Accepting

(***************************************************************************)
(* Claims about the sysinit stage.                                         *)
(***************************************************************************)
\* The first two invocations on the host were given the same commands.
TwiceSameCommands == si_n = 2 /\ si_prev.commands = si_last.commands

\* The statement without a condition on the first invocation.
C7_ExactlyOnce_Original ==
    TwiceSameCommands
        => /\ si_last.outcome = "skipped"
           /\ si_prev.executed \o si_last.executed = si_last.commands

\* C7: of two invocations of the sysinit stage on a host with the same
\* commands, the second finds the marker named by the hash of the commands
\* and runs nothing, provided the first one ran to its end and wrote the
\* marker; the commands then have run exactly once.  When the first one
\* wrote no marker (a failing command aborted it, or `touch` failed) the
\* second one runs the commands again.
C7_ExactlyOnce ==
    TwiceSameCommands
        => /\ si_prev.touched
                => /\ si_last.outcome = "skipped"
                   /\ si_last.executed = <<>>
                   /\ si_prev.executed \o si_last.executed = si_last.commands
           /\ ~si_prev.touched
                => /\ si_last.outcome # "skipped"
                   /\ si_last.executed # <<>> \/ si_last.commands = <<>>

C7_Witness ==
    /\ TwiceSameCommands
    /\ si_last.commands = <<<<"a">>, <<"a", "a">>>>
    /\ si_prev.touched
    /\ si_prev.executed = si_prev.commands
    /\ si_last.outcome = "skipped"

(***************************************************************************)
(* Claims about the state polling loop.                                    *)
(***************************************************************************)
\* The states of the scenario, round by round.
ScenarioStates == <<"PUBLISHING", "STARTING", "STARTED">>

\* One application with one VM is polled, and the VM has shown the first k
\* states of the scenario.
ScenarioUpTo(k) ==
    /\ po_appmap = {1}
    /\ po_vms[1] = 1
    /\ po_trace[1] = SubSeq(ScenarioStates, 1, k)

\* C9: an application whose VM state in successive rounds is PUBLISHING,
\* STARTING, STARTED is in the alive set after exactly 3 rounds (not after
\* 1 or 2), the progress codes are P then S, and the round that finds it
\* STARTED emits no code.
C9_AliveAfterThreeRounds ==
    /\ ScenarioUpTo(1) => /\ po_alive = <<>>
                          /\ po_waitapps = {1}
                          /\ po_round = 0 => po_progress = <<>>
                          /\ po_round = 1 => po_progress = <<"P">>
    /\ ScenarioUpTo(2) => /\ po_alive = <<>>
                          /\ po_waitapps = {1}
                          /\ po_round = 1 => po_progress = <<"P">>
                          /\ po_round = 2 => po_progress = <<"P", "S">>
    /\ ScenarioUpTo(3) => /\ po_alive = <<1>>
                          /\ po_waitapps = {}
                          /\ po_round = 2
                          /\ po_progress = <<"P", "S">>
                          /\ po_pc \in {"apps", "final", "returned"}

C9_Witness ==
    /\ ScenarioUpTo(3)
    /\ po_impl = "run"
    /\ po_pc = "returned"
    /\ po_alive = <<1>>
    /\ po_progress = <<"P", "S">>

(***************************************************************************)
(* Claims about the task pipeline.                                         *)
(***************************************************************************)
\* The order of the stages the specification states.
StatedStages == <<"pack", "renew", "sysinit", "copy", "unpack", "prepare", "execute">>

\* The names of the stages invoked for host h, in the order of invocation.
StagesOf(h) == [i \in 1..Len(pl_ran[h]) |-> pl_ran[h][i].stage]

SingleHost == Len(pl_hosts) = 1

\* The host of a run on a single host.
TheHost == pl_hosts[1]

\* C10: for a single host the stages are invoked in the order pack, renew,
\* sysinit, copy, unpack, prepare, execute, all of them when the run ends
\* with exit(0); when copy fails and continue is false, unpack, prepare and
\* execute are never invoked for the host.
C10_StageOrder ==
    SingleHost =>
        /\ StagesOf(TheHost) = SubSeq(StatedStages, 1, Len(pl_ran[TheHost]))
        /\ pl_pc = "exit0" => StagesOf(TheHost) = StatedStages
        /\ \A i \in 1..Len(pl_ran[TheHost]) :
              (pl_ran[TheHost][i].stage = "copy" /\ pl_ran[TheHost][i].outcome = "failed"
                  /\ ~pl_continue)
                 => /\ Len(pl_ran[TheHost]) = i
                    /\ pl_pc = "aborted"

C10_Witness ==
    /\ SingleHost
    /\ ~pl_continue
    /\ pl_pc = "aborted"
    /\ StagesOf(TheHost) = <<"pack", "renew", "sysinit", "copy">>
    /\ pl_ran[TheHost][4].outcome = "failed"

(***************************************************************************)
(* Claims about the API client (SpecGateway).                              *)
(***************************************************************************)

\* The number of elements of s that satisfy P.
Count(s, P(_)) == Cardinality({ i \in 1..Len(s) : P(s[i]) })

\* The turns the retry loop took for the request of the last call itself.
CallAttempts == Count(gw_last.events, LAMBDA e : e.op = "attempt" /\ e.url = "/call")

\* The requests of the last call itself that went out on a connection.
CallRequests == Count(gw_last.events, LAMBDA e : e.op = "request" /\ e.url = "/call")

\* The outcomes of the last call that were timeouts.
Timeouts == Count(gw_last.tape, LAMBDA o : should_retry(o.exc))

\* By how much the last call increased _total_retries.
RetriesRecorded == gw_client.total_retries - gw_last.before.total_retries

\* A GET whose third attempt gave the response that was returned.
ThirdAttemptSucceeds ==
    /\ gw_last.op = "call"
    /\ gw_last.method = "GET"
    /\ CallAttempts = 3
    /\ gw_last.r.kind = "response"

\* C11, as stated: a GET whose first two attempts time out and whose third
\* succeeds returns the response and increases the recorded retry count by
\* exactly 2.
C11_ExactlyTwoRetries_Original ==
    ThirdAttemptSucceeds =>
        /\ gw_last.r.status \in OK_CODES
        /\ RetriesRecorded = 2

\* C11, amended: such a GET returns the successful response and increases
\* the recorded retry count by at least 2: by one for every request that
\* timed out, those of the login of a new connection included.
C11_AtLeastTwoRetries ==
    ThirdAttemptSucceeds =>
        /\ gw_last.r.status \in OK_CODES
        /\ RetriesRecorded >= 2
        /\ RetriesRecorded = Timeouts

C11_Witness ==
    /\ ThirdAttemptSucceeds
    /\ RetriesRecorded = 2
    /\ gw_last.before.connection # 0

\* The retries the retry loop counted during the last call.
RetryEvents == Count(gw_last.events, LAMBDA e : e.op = "retry")

\* The failure that event e reports is of the kind that is
\* resubmitted: a timeout of a GET, HEAD or PUT.
Resubmittable(e) ==
    /\ e.method \in {"GET", "HEAD", "PUT"}
    /\ e.exc \in {"socket.timeout", "ssl.timeout"}

\* C12: a failed request is resubmitted only when its verb is GET, HEAD or
\* PUT and the failure is of the timeout class; after any other failure the
\* error is raised at once: nothing is attempted or sent any more and no
\* retry is recorded.
C12_ResubmitOnlyIdempotentTimeouts ==
    LET ev == gw_last.events
    IN  gw_last.op \in {"call", "login"} =>
          /\ RetriesRecorded = RetryEvents
          /\ \A i \in 1..Len(ev) :
               ev[i].op = "except" =>
                 IF Resubmittable(ev[i])
                 THEN i < Len(ev) /\ ev[i + 1].op = "retry"
                 ELSE /\ gw_last.r.kind = "raise"
                      /\ \A j \in (i + 1)..Len(ev) : ev[j].op = "except"

\* A POST on an open connection that timed out.
C12_Witness ==
    /\ gw_last.op = "call"
    /\ gw_last.method = "POST"
    /\ gw_last.before.connection # 0
    /\ gw_last.tape = <<[exc |-> "socket.timeout", status |-> 0, set_cookie |-> FALSE]>>
    /\ gw_last.r.kind = "raise"
    /\ CallAttempts = 1
    /\ CallRequests = 1
    /\ RetriesRecorded = 0

\* The attempts of the request of the last call that ended with a timeout.
CallTimeouts ==
    Count(gw_last.events,
          LAMBDA e : e.op = "except" /\ e.url = "/call"
                     /\ e.exc \in {"socket.timeout", "ssl.timeout"})

\* C13: an idempotent request whose every attempt times out is attempted
\* exactly `retries` times and then fails with a RavelloError, and the
\* recorded retry count grew by at least `retries`; no request is ever
\* attempted more than `retries` times.
C13_RetriesExhausted ==
    gw_last.op = "call" =>
      /\ CallAttempts <= gw_last.before.retries
      /\ (/\ gw_last.method \in {"GET", "HEAD", "PUT"}
          /\ gw_last.r.kind = "raise"
          /\ CallTimeouts = CallAttempts)
         => /\ CallAttempts = gw_last.before.retries
            /\ gw_last.r.exc = "RavelloError"
            /\ gw_last.r.msg = "maximum retries reached"
            /\ RetriesRecorded >= gw_last.before.retries

\* A GET of a client with the default number of retries, on an open
\* connection, that timed out three times.
C13_Witness ==
    /\ gw_last.op = "call"
    /\ gw_last.method = "GET"
    /\ gw_last.before.connection # 0
    /\ gw_last.before.retries = default_retries
    /\ gw_last.r.kind = "raise"
    /\ CallTimeouts = 3
    /\ CallAttempts = 3
    /\ RetriesRecorded = 3

\* C14: a response whose status is not 200, 201, 202 or 204 makes the call
\* fail with a RavelloError that carries that status, and the request is
\* not retried, whatever its verb.
C14_BadStatusRaises ==
    LET ev == gw_last.events
    IN  gw_last.op \in {"call", "login"} =>
          \A i \in 1..Len(ev) :
            (ev[i].op = "response" /\ ev[i].status \notin {200, 201, 202, 204}) =>
               /\ gw_last.r.kind = "raise"
               /\ gw_last.r.exc = "RavelloError"
               /\ gw_last.r.status = ev[i].status
               /\ \A j \in (i + 1)..Len(ev) : ev[j].op \in {"close", "except"}

\* A GET on an open connection that was answered with status 500.
C14_Witness ==
    /\ gw_last.op = "call"
    /\ gw_last.method = "GET"
    /\ gw_last.before.connection # 0
    /\ gw_last.r.kind = "raise"
    /\ gw_last.r.status = 500
    /\ CallAttempts = 1
    /\ CallRequests = 1
    /\ RetriesRecorded = 0

(***************************************************************************)
(* Claims about the exit status of a run (SpecPipeline).                   *)
(***************************************************************************)

\* The outcome of the user command on host h: "none" when it did not run.
CommandOutcome(h) ==
    LET at == { i \in 1..Len(pl_ran[h]) : pl_ran[h][i].stage = "execute" }
    IN  IF at = {} THEN "none" ELSE pl_ran[h][CHOOSE i \in at : TRUE].outcome

RunOver == pl_pc \in {"exit0", "aborted", "raised"}

\* C15: the exit status of the run is 0 when the user command succeeded on
\* every host, and not 0 when the command exited non-zero on some host,
\* with the continue flag and without it.
C15_ExitStatusTellsFailure ==
    RunOver =>
      /\ (pl_hosts # <<>> /\ \A h \in DOMAIN pl_ran : CommandOutcome(h) = "ok")
            => exit_status = 0
      /\ (\E h \in DOMAIN pl_ran : CommandOutcome(h) = "failed")
            => exit_status # 0

(***************************************************************************)
(* Claims about the end of the waits (SpecProbe).                          *)
(***************************************************************************)

\* C16: when the wait ends with nothing ready, here with no address that
\* accepts connections, the run is aborted with a fatal error: the probe
\* does not return to the caller, which would go on to the pipeline.
C16_ZeroReadyIsFatal ==
    (pr_pc \in {"returned", "exited"} /\ pr_alive = <<>>) => pr_pc = "exited"

(***************************************************************************)
(* Claims about the application that is re-used (SpecReuse).               *)
(***************************************************************************)

\* The environment the last resolution was for.
LastEnv == rs_manifest[rs_env_i - 1]

\* C17: the application the re-use path returns has a name made of the name
\* of the environment and a non-empty ordinal, exactly one VM, made from the
\* image the environment resolves to, in state PUBLISHING, STARTING, STARTED
\* or STOPPED, and tagged with the id of the local keypair.
C17_ReusedApplicationFits ==
    rs_last.how = "reuse" =>
      LET app == rs_full[rs_last.app]
          parts == splitname(app.name)
      IN  /\ app.name = rs_last.name
          /\ parts[1] = LastEnv.name
          /\ parts[2] # <<>>
          /\ Len(app.vms) = 1
          /\ app.vms[1].shelfVmId = get_image(LastEnv.vm).id
          /\ app.vms[1].state \in {"PUBLISHING", "STARTING", "STARTED", "STOPPED"}
          /\ app.vms[1].userdata = MyKey

\* A re-use from a project with three applications of which one fits.
C17_Witness ==
    /\ rs_last.how = "reuse"
    /\ Len(rs_applications) = 3
    /\ Len(rs_last.candidates) = 1
    /\ rs_last.state = "STOPPED"

(***************************************************************************)
(* Claims about the check of the manifest (SpecCheck).                     *)
(***************************************************************************)

\* Environment e names an image, a blueprint or a task class that does not exist.
Faulty(e) ==
    \/ e.vm \notin {"fedora", "ubuntu"}
    \/ e.blueprint \notin {"none", "lamp"}
    \/ e.task \notin {"none", "testmill.tasks:SysinitTask"}

\* C18: when an environment names an image, a blueprint or a task class that
\* does not exist, the run ends with a fatal configuration error before any
\* environment is resolved: no call that looks for, creates, publishes or
\* starts an application is made, whatever the place of the environment.
C18_FaultyManifestIsFatal ==
    ((\E i \in 1..Len(cf_manifest) : Faulty(cf_manifest[i])) /\ cf_pc # "loaded") =>
        /\ cf_pc = "exited"
        /\ cf_log # <<>>
        /\ cf_calls = <<>>

(***************************************************************************)
(* Claims about the caches of full objects (SpecCache).                    *)
(***************************************************************************)

\* C19: for every kind (image, application, blueprint) and id, a get_full
\* call without force_reload fetches only when no entry is cached for the
\* id and else returns the cached object; a call with force_reload always
\* fetches and replaces the entry, so that the entry, which a later call
\* without force_reload returns, is the object just fetched.
C19_CacheContract ==
    fc_last.kind # "none" =>
      /\ fc_last.out = "ok"
      /\ fc_last.result = fc_cache[CacheOf(fc_last.kind)][fc_last.id]
      /\ IF fc_last.force_reload
         THEN fc_last.fetched /\ fc_last.result = fc_last.fresh
         ELSE /\ fc_last.fetched <=> fc_last.before = 0
              /\ fc_last.before # 0 => fc_last.result = fc_last.before

(***************************************************************************)
(* Claims about get_unused_name (SpecNames).                               *)
(***************************************************************************)

\* The names of nm_current that have the base the call was made with, and a suffix.
SameBase ==
    { k \in 1..Len(nm_current) :
        /\ Len(nm_current[k].name) > Len(nm_name)
        /\ SubSeq(nm_current[k].name, 1, Len(nm_name)) = nm_name
        /\ nm_current[k].name[Len(nm_name) + 1] = Sep
        /\ Len(nm_current[k].name) = Len(nm_name) + 2 }

\* The ordinals of those names.
Ordinals ==
    { n \in 0..(MaxNames + 1) :
        \E k \in SameBase : nm_current[k].name[Len(nm_name) + 2] \in {ToString(n), "0" \o ToString(n)} }

\* C20: get_unused_name(base, current) returns <base><sep><k> where k is the
\* smallest positive integer that is not the ordinal of a name of `current`
\* with that base, and the name it returns is the name of no object of
\* `current`.
C20_SmallestUnusedOrdinal ==
    nm_name # <<"none">> =>
      /\ \E k \in 1..(MaxNames + 1) :
           /\ nm_result = nm_name \o <<Sep, ToString(k)>>
           /\ k \notin Ordinals
           /\ \A j \in 1..(k - 1) : j \in Ordinals
      /\ \A i \in 1..Len(nm_current) : nm_current[i].name # nm_result

\* The position of the request that resubmits after the retry at position i
\* of the trace: the first request after i for the same verb and URL (0 when
\* there is none).
Resubmission(ev, i) ==
    LET later == { j \in (i + 1)..Len(ev) :
                     /\ ev[j].op = "request"
                     /\ ev[j].method = ev[i].method
                     /\ ev[j].url = ev[i].url }
    IN  IF later = {} THEN 0 ELSE CHOOSE j \in later : \A k \in later : j <= k

\* The connection the request that failed before position i went out on (0
\* when the failure was that of the connect).
FailedOn(ev, i) ==
    LET sent == { j \in 1..(i - 1) : ev[j].op \in {"request", "connect"} }
    IN  IF sent = {} THEN 0
        ELSE LET j == CHOOSE j \in sent : \A k \in sent : k <= j
             IN  IF ev[j].op = "request" /\ ev[j].url = ev[i].url THEN ev[j].conn ELSE 0

\* C21: whenever a request is resubmitted after a failure that is retried,
\* the connection it failed on has been closed, and before the request goes
\* out again a new connection is made and a login is performed on it.
C21_ReconnectBeforeResubmit ==
    LET ev == gw_last.events
    IN  gw_last.op \in {"call", "login"} =>
          \A i \in 1..Len(ev) :
            ev[i].op = "retry" =>
              /\ FailedOn(ev, i) # 0 =>
                    \E k \in 1..(i - 1) : ev[k].op = "close" /\ ev[k].conn = FailedOn(ev, i)
              /\ LET j == Resubmission(ev, i)
                 IN  j # 0 =>
                       /\ ev[j].conn # FailedOn(ev, i)
                       /\ \E k \in (i + 1)..(j - 1) :
                            /\ ev[k].op = "connect"
                            /\ ev[k].conn = ev[j].conn
                            /\ \E l \in (k + 1)..(j - 1) :
                                 ev[l].op = "login" /\ ev[l].conn = ev[j].conn

\* A GET on an open connection that timed out once and then was answered.
C21_Witness ==
    /\ gw_last.op = "call"
    /\ gw_last.method = "GET"
    /\ gw_last.before.connection # 0
    /\ gw_last.r.kind = "response"
    /\ CallAttempts = 2
    /\ CallRequests = 2
    /\ RetriesRecorded = 1

(***************************************************************************)
(* Claims about the pending set of the polling loop (SpecPoll).            *)
(***************************************************************************)

\* The aggregate state application a showed when it was last polled.
LastSeen(a) == po_trace[a][Len(po_trace[a])]

\* C22: an application whose aggregate state is PUBLISHING, STARTING or
\* STOPPED when it is polled stays in the pending set, to be polled again
\* in the next round; it is not dropped as failed.
C22_WaitingStaysPending ==
    \A a \in po_appmap :
        (po_trace[a] # <<>> /\ LastSeen(a) \in {"PUBLISHING", "STARTING", "STOPPED"})
            => a \in po_waitapps

\* The rounds in which application a showed an aggregate state that is not
\* a recognized one.
UnknownSeen(a) == { k \in 1..Len(po_trace[a]) : po_trace[a][k] \notin KnownStates }

\* C23: an application whose aggregate state in some round is not a
\* recognized state leaves the pending set in that round, is not polled
\* again and never enters the alive set, and the loop goes on normally.
C23_UnknownIsDropped ==
    \A a \in po_appmap :
        UnknownSeen(a) # {} =>
            /\ a \notin po_waitapps
            /\ UnknownSeen(a) = {Len(po_trace[a])}
            /\ \A i \in 1..Len(po_alive) : po_alive[i] # a
            /\ po_pc # "raised"

\* The API calls the step adds to those of the invocation.
NewCalls == SubSeq(rs_calls', Len(rs_calls) + 1, Len(rs_calls'))

\* C24: the resolver issues a start call for the VM of the application it
\* re-uses if and only if the state of the chosen candidate is STOPPED, as
\* the last call before the application is returned; no start call is
\* issued for any other application, nor on the create path.
C24_StartIffStopped ==
    [][Len(rs_calls') >= Len(rs_calls) =>
         LET starts == { k \in 1..Len(NewCalls) : NewCalls[k].op = "start_vm" }
         IN  IF rs_env_i' = rs_env_i + 1 /\ rs_last'.how = "reuse"
                /\ rs_last'.state = "STOPPED"
             THEN /\ starts = {Len(NewCalls)}
                  /\ NewCalls[Len(NewCalls)].app = rs_last'.app
             ELSE starts = {}]_vars

\* A stopped application was chosen among two candidates and started.
C24_Witness ==
    /\ rs_last.how = "reuse"
    /\ rs_last.state = "STOPPED"
    /\ Len(rs_last.candidates) = 2
    /\ rs_calls # <<>>
    /\ rs_calls[Len(rs_calls)] = [op |-> "start_vm", app |-> rs_last.app]

\* ------------------------------------------------------------------------
\* C25: on the create path the calls are create, publish and the forced reload
\* of the full application, in that order and once each, publish being sent
\* for the application that create returned; the full detail that the cache
\* holds for the new application is the one the backend has after publish.
CallsOf(calls, id) ==
    LET I == { k \in 1..Len(calls) : calls[k].app = id }
        F[k \in 0..Len(calls)] ==
            IF k = 0 THEN <<>>
            ELSE IF k \in I THEN Append(F[k - 1], calls[k].op) ELSE F[k - 1]
    IN  F[Len(calls)]

C25_CreatePublishReload ==
    [][(rs_env_i' = rs_env_i + 1 /\ rs_last'.how = "create") =>
         /\ CallsOf(NewCalls, rs_last'.app) =
                <<"create_application", "publish_application", "get_application">>
         /\ rs_last'.app \notin AppIds(be_apps)
         /\ rs_full'[rs_last'.app] = BackendGet(be_apps', rs_last'.app)
         /\ rs_full'[rs_last'.app].vms[1].state = "PUBLISHING"]_vars

C25_Witness ==
    /\ rs_last.how = "create"
    /\ Len(rs_calls) >= 3
    /\ SubSeq(rs_calls, Len(rs_calls) - 2, Len(rs_calls)) =
           <<[op |-> "create_application", app |-> rs_last.app],
             [op |-> "publish_application", app |-> rs_last.app],
             [op |-> "get_application", app |-> rs_last.app]>>
    /\ rs_full[rs_last.app].vms[1].state = "PUBLISHING"

\* ------------------------------------------------------------------------
\* C26: creating an application leaves the full image in the cache as the
\* catalog returned it (same ids, name and custom configuration), so a later
\* create starts from the original template.
C26_CachedImageUnchanged ==
    ct_full_images.kind # "none" => ct_full_images = ct_image

\* The same for the API's create_new_vm alone, which copies the image.
C26_CopyKeepsCache ==
    (ct_path = "api" /\ ct_full_images.kind # "none") => ct_full_images = ct_image

\* ------------------------------------------------------------------------
\* C27: whatever one process resolves, several creations for one base name
\* included, no two instances (applications named base:ordinal) of the backend
\* have the same name.
IsInstance(app) == splitname(app.name)[2] # <<>>

C27_NamesAreUnique ==
    \A i, j \in 1..Len(be_apps) :
        (IsInstance(be_apps[i]) /\ be_apps[i].name = be_apps[j].name) => i = j

\* ------------------------------------------------------------------------
\* C28: every stage (pack and renew, sysinit, copy, unpack, prepare, execute)
\* runs only on hosts whose address the probe returned as reachable; an
\* address that was waited for and not returned is the target of no stage.
RanOn(h) == IF h \in DOMAIN pl_ran THEN pl_ran[h] ELSE <<>>

C28_StagesOnlyOnConfirmed ==
    /\ Range(pl_hosts) \subseteq Range(pl_alive)
    /\ \A h \in pl_addrmap : RanOn(h) # <<>> => h \in Range(pl_alive)

C28_Witness ==
    /\ Cardinality(pl_addrmap) = 2
    /\ Len(pl_alive) = 1
    /\ \E k \in 1..Len(RanOn(pl_alive[1])) : RanOn(pl_alive[1])[k].stage = "execute"
    /\ \E h \in pl_addrmap : h \notin Range(pl_alive) /\ RanOn(h) = <<>>

\* ------------------------------------------------------------------------
\* C29 as stated: with several hosts in parallel, a host begins the next
\* init stage only when every host has completed or failed the stage before
\* it, so that two hosts are never more than one stage apart.
HostParallel == Len(pl_hosts) > 1 /\ pl_pc = "init"

C29_BarrierAfterEachStage_Original ==
    HostParallel =>
        \A h, g \in DOMAIN pl_pos : ~pl_dead[g] => pl_pos[h] <= pl_pos[g] + 1

\* The stages invoked for host h after pack.
AfterPack(h) ==
    LET all == StagesOf(h)
    IN  IF all # <<>> /\ all[1] = "pack" THEN Tail(all) ELSE all

\* C29: with several hosts in parallel, every host runs renew, sysinit, copy,
\* unpack, prepare in this order, alone and at its own pace; the run leaves
\* the group of these stages only when every host has completed all of
\* them or has failed, and execute is invoked only when all have completed.
C29_BarrierAfterInitGroup ==
    Len(pl_hosts) > 1 =>
        /\ \A h \in DOMAIN pl_ran :
              LET done == AfterPack(h)
                  all == init_actions \o <<"execute">>
              IN  /\ Len(done) <= Len(all)
                  /\ done = SubSeq(all, 1, Len(done))
        /\ (pl_pc \in {"execute", "exit0"} \/ \E h \in DOMAIN pl_ran : CommandOutcome(h) # "none")
              => \A h \in DOMAIN pl_pos : pl_pos[h] > Len(init_actions) /\ ~pl_dead[h]
        /\ (pl_pc = "aborted" /\ \E h \in DOMAIN pl_pos : pl_pos[h] > 1)
              => \A h \in DOMAIN pl_pos : pl_pos[h] > Len(init_actions) \/ pl_dead[h]

\* Two hosts in parallel are through all the init stages and execute has
\* run on one of them.
C29_Witness ==
    /\ Len(pl_hosts) = 2
    /\ pl_pc = "execute"
    /\ \A h \in DOMAIN pl_pos : pl_pos[h] > Len(init_actions)
    /\ \E h \in DOMAIN pl_ran : CommandOutcome(h) = "ok"

\* ------------------------------------------------------------------------
\* C30: at most one host is running the execute stage at any moment, and the
\* execute stage is invoked for a host only when renew, sysinit, copy, unpack
\* and prepare have finished on all hosts.
C30_ExecuteIsSerial ==
    /\ Cardinality(Running) <= 1
    /\ (\E h \in DOMAIN pl_ran : CommandOutcome(h) # "none")
          => \A g \in DOMAIN pl_ran :
                /\ pl_pos[g] > Len(init_actions)
                /\ SubSeq(AfterPack(g), 1, Len(init_actions)) = init_actions

\* Two hosts: the command has ended on the first and runs on the second.
C30_Witness ==
    /\ Len(pl_hosts) = 2
    /\ CommandOutcome(pl_hosts[1]) \in {"ok", "failed"}
    /\ Running = {pl_hosts[2]}

\* ------------------------------------------------------------------------
\* C31: on a host the execute stage schedules the shutdown job before the
\* user command runs, at min(90, keep) minutes: never above 90 and never
\* above the keep of the environment.
ShutdownsScheduled == { i \in 1..Len(sd_log) : sd_log[i].op = "at" }

UserCommands == { i \in 1..Len(sd_log) :
                    sd_log[i].stage = "execute" /\ sd_log[i].op \in {"ok", "failed"} }

Renewed == \E i \in 1..Len(sd_log) : sd_log[i].op = "atrm"

C39_ShutdownPendingAtEnd ==
    (sd_pc \in {"done", "aborted"} /\ Renewed) => sd_jobs # <<>>

\* The same for the runs that reach the execute stage.
C39_PendingOnceExecuteBegan ==
    (sd_pc \in {"done", "aborted"} /\ ShutdownsScheduled # {}) => sd_jobs # <<>>

\* ------------------------------------------------------------------------
\* C38: the marker of sysinit is written only when every sysinit command ran
\* with success; when a command fails, with or without the continue flag,
\* no marker is written and the next invocation on the host runs sysinit
\* again.
CommandFailed(inv) ==
    /\ inv.outcome \notin {"none", "skipped"}
    /\ inv.fail_at \in 1..Len(inv.commands)

C38_MarkerOnlyAfterSuccess ==
    /\ si_last.touched => ~CommandFailed(si_last)
    /\ CommandFailed(si_last) => marker_name(si_last.commands) \notin si_files
    /\ (CommandFailed(si_prev) /\ si_last.commands = si_prev.commands)
          => si_last.outcome # "skipped"

\* The same without the continue flag.
C38_MarkerOnlyAfterSuccess_Abort ==
    /\ (si_last.touched /\ ~si_last.warn_only) => ~CommandFailed(si_last)
    /\ (CommandFailed(si_last) /\ ~si_last.warn_only)
          => marker_name(si_last.commands) \notin si_files
    /\ (CommandFailed(si_prev) /\ ~si_prev.warn_only
          /\ si_last.commands = si_prev.commands)
          => si_last.outcome # "skipped"

\* ------------------------------------------------------------------------
\* C32: with the continue flag set a command that exits non-zero never stops
\* the pipeline: no host is given up, the run is not aborted, a stage that
\* failed on a host is followed by the later stages on that host, and at the
\* end every stage has run on every host.
FailedStages(h) == { i \in 1..Len(pl_ran[h]) : pl_ran[h][i].outcome = "failed" }

C32_ContinueNeverStops ==
    pl_continue =>
        /\ pl_pc # "aborted"
        /\ \A h \in DOMAIN pl_dead : ~pl_dead[h]
        /\ pl_pc = "exit0" =>
              /\ StagesOf(pl_hosts[1]) = StatedStages
              /\ \A h \in DOMAIN pl_ran : AfterPack(h) = Tail(StatedStages)

\* Two hosts with the continue flag: copy failed on one of them, and the
\* run went on to its end.
C32_Witness ==
    /\ pl_continue
    /\ Len(pl_hosts) = 2
    /\ pl_pc = "exit0"
    /\ \E h \in DOMAIN pl_ran :
          \E i \in FailedStages(h) : pl_ran[h][i].stage = "copy"

\* ------------------------------------------------------------------------
\* C33: every socket that a round of the probe opened is closed by the end
\* of the round, whatever came of it (connected, failed, an immediate error
\* of connect(), round budget exhausted): outside the inner loop of a round,
\* and after the probe, no probing socket is open.
C33_SocketsClosedByRoundEnd ==
    pr_pc # "select" => pr_open = {}

\* The same for the probes in which no connect() fails at once.
C33_ClosedWithoutConnectError ==
    (pr_pc # "select" /\ \A a \in DOMAIN pr_behaviour : pr_behaviour[a] # "unreachable")
        => pr_open = {}

\* ------------------------------------------------------------------------
\* C40: the probe confirms an address only when select() reported the socket
\* of the address writable and its pending error is zero; a select() that is
\* interrupted (EINTR) confirms no address.
Confirmed(alive) == { alive[k] : k \in 1..Len(alive) }

C40_ConfirmOnlyWritableWithoutError ==
    [][pr_alive' # pr_alive =>
         /\ pr_signals' = pr_signals
         /\ \A a \in Confirmed(pr_alive') \ Confirmed(pr_alive) :
               /\ a \in Ready
               /\ pr_behaviour[a] = "accept"]_vars

\* The same for the waits that no signal interrupts.
C40_ConfirmOnlyWritable_NoSignal ==
    [][(pr_alive' # pr_alive /\ pr_signals' = pr_signals) =>
         \A a \in Confirmed(pr_alive') \ Confirmed(pr_alive) :
             /\ a \in Ready
             /\ pr_behaviour[a] = "accept"]_vars

\* ------------------------------------------------------------------------
\* C34: whatever states the backend reports, the polling loop is left only
\* because the pending set is empty or the deadline has passed, and the alive
\* set it returns is a subset of the applications asked for that is disjoint
\* from the applications still pending.
PollLeft == po_pc \in {"final", "returned", "exited", "raised"}

AliveApps == { po_alive[k] : k \in 1..Len(po_alive) }

C34_PollEndsWithAliveSet ==
    /\ PollLeft => /\ po_pc # "raised"
                   /\ po_waitapps = {} \/ poll_deadline_passed(po_round)
    /\ AliveApps \subseteq po_appmap
    /\ AliveApps \cap po_waitapps = {}

\* The same for the loop of main.py.
C34_PollEndsWithAliveSet_Main ==
    po_impl = "main" =>
        /\ PollLeft => /\ po_pc # "raised"
                       /\ po_waitapps = {} \/ poll_deadline_passed(po_round)
        /\ AliveApps \subseteq po_appmap
        /\ AliveApps \cap po_waitapps = {}

\* ------------------------------------------------------------------------
\* C35 as stated: get_application_state gives the same aggregate state for
\* every permutation of the VM states, unknown labels included.
StateCalled == cs_fn = "get_application_state"

\* The VM states of the call in the order p.
Permuted(p) == [i \in 1..Len(cs_args) |-> cs_args[p[i]]]

UnknownLabelsOfCall == { cs_args[i] : i \in 1..Len(cs_args) } \ KnownStates

C35_OrderIndependent_Original ==
    StateCalled =>
        \A p \in Orderings(1..Len(cs_args)) : get_application_state(Permuted(p)) = cs_result

\* C35: the aggregate state is the same for every permutation of the VM
\* states when they hold at most one unknown label; with several different
\* unknown labels it is the unknown label of the first VM that has one.
C35_OrderIndependent ==
    StateCalled =>
        /\ Cardinality(UnknownLabelsOfCall) <= 1 =>
              \A p \in Orderings(1..Len(cs_args)) :
                  get_application_state(Permuted(p)) = cs_result
        /\ UnknownLabelsOfCall # {} =>
              LET first == CHOOSE i \in 1..Len(cs_args) :
                               /\ cs_args[i] \notin KnownStates
                               /\ \A j \in 1..(i - 1) : cs_args[j] \in KnownStates
              IN  cs_result = cs_args[first]

C35_Witness ==
    /\ StateCalled
    /\ cs_args = <<"STARTED", "ERROR">>
    /\ cs_result = "ERROR"

\* ------------------------------------------------------------------------
\* C36: a request of a call that is sent on a connection for which the call
\* logged in (the first request of a client that was not connected, and a
\* request resubmitted after a retry) carries the cookie that this login
\* set, not the cookie, or the lack of one, from before.
CookiesSetBefore(ev, i) ==
    { j \in 1..(i - 1) : ev[j].op = "cookie" /\ ev[j].conn = ev[i].conn }

CallRequestsOf(ev) ==
    { i \in 1..Len(ev) : ev[i].op = "request" /\ ev[i].url = "/call" }

C36_RequestCarriesSessionCookie ==
    gw_last.op = "call" =>
        \A i \in CallRequestsOf(gw_last.events) :
            LET set == CookiesSetBefore(gw_last.events, i)
            IN  set # {} =>
                  gw_last.events[i].cookie =
                      gw_last.events[CHOOSE j \in set : \A k \in set : k <= j].cookie

\* The same for the calls of a client that is connected and logged in and
\* whose connection holds: the request carries the cookie of the session.
C36_CookieOfOpenSession ==
    gw_last.op = "call" =>
        \A i \in CallRequestsOf(gw_last.events) :
            CookiesSetBefore(gw_last.events, i) = {}
                => gw_last.events[i].cookie = gw_last.before.cookie

\* ------------------------------------------------------------------------
\* C37: a login() that fails, with a password or with a token, leaves the
\* client logged out: its cookie is unset afterwards, so that a later
\* login() is attempted and not refused as 'already logged in'.
LoginFailed ==
    /\ gw_last.op = "login"
    /\ gw_last.r.kind = "raise"
    /\ gw_last.before.cookie = NoCookie

C37_FailedLoginLeavesLoggedOut ==
    LoginFailed => gw_client.cookie = NoCookie

\* What holds: a login() that fails by an exception of the transport, which
\* _retry_request answers with close(), leaves the cookie unset.
C37_TransportFailureLeavesLoggedOut ==
    (LoginFailed /\ gw_last.r.msg \in {"error making API call",
                                       "maximum retries reached"})
        => gw_client.cookie = NoCookie

====
